---- MODULE Spec2Model ----
(***************************************************************************)
(* State-machine model of the multiplayer snake server:                    *)
(*   server/gameManager.js  (GameManager: sessions, registries, sweeps)    *)
(*   server/lobby.js        (Lobby: membership, lifecycle, tick engine)    *)
(*   server/weapons.js      (weapon catalog, applyWeaponEffect, Player)    *)
(* Timers (setTimeout / setInterval) are pending-timer fields of the lobby *)
(* that fire as separate actions; Math.random() is a nondeterministic      *)
(* choice; JavaScript numbers are integers plus the values NaN/undefined.  *)
(***************************************************************************)
EXTENDS Integers, Sequences, FiniteSets, TLC

\* ------------------------------------------------------------------ bounds
\* Number of Player objects (sessions) there are.
NumPlayers == 4
\* Number of sessions opened after the server's construction.
NumSessions == 2
\* Number of lobbies ever created (each gets a fresh uuid).
NumLobbies == 2
\* gameSettings.boardSize sent with create_lobby.
BoardSize == 6
\* Number of ticks after which gameSettings.maxGameTime (sent with create_lobby) is reached.
MaxTicks == 2
\* Number of games ever started.
MaxGames == 2
\* Number of auto-start timeouts that may be pending at once in a lobby.
MaxAutoStart == 2
\* How many of SpawnCands the random spawn positions are drawn from.
NumSpawnCells == 1
\* How many of the catalog's weapon types the random weapon type is drawn from.
NumWeaponTypes == 1
\* How many of DirPayloads clients send as player_input direction.
NumDirPayloads == 4
\* Number of applyWeaponEffect calls made (SpecFx only).
MaxEffects == 1
\* data.maxPlayers sent with create_lobby.
LobbyMaxPlayers == 2
\* Number of create_lobby, join_lobby, leave_lobby and set_ready messages ever received.
MaxCommands == 5
\* Number of player_input direction messages ever passed to updateDirection.
MaxInputs == 3

\* ------------------------------------------------------- program constants
GameSpeed == 150
CountdownStepMs == 1000
CountdownFrom == 3
InitialFood == 5
InitialWeapons == 3
FoodScore == 10
KillScore == 50
DoubleScoreMultiplier == 2

\* --------------------------------------------------------- JavaScript values
\* The number NaN and the value undefined, as integers outside every coordinate range.
NaN == -9999
Undefined == -8888

NotNum(a) == a = NaN \/ a = Undefined
\* a + b
JsAdd(a, b) == IF NotNum(a) \/ NotNum(b) THEN NaN ELSE a + b
\* -a
JsNeg(a) == IF NotNum(a) THEN NaN ELSE 0 - a
\* a === b
JsStrictEq(a, b) == IF a = NaN \/ b = NaN THEN FALSE ELSE a = b
\* a < b, a >= b (false when either side is NaN)
JsLt(a, b) == ~NotNum(a) /\ ~NotNum(b) /\ a < b
JsGe(a, b) == ~NotNum(a) /\ ~NotNum(b) /\ a >= b

\* ------------------------------------------------------------------- sets
Players == 1..NumPlayers
LobbyIds == 1..NumLobbies
NoPlayer == 0
NoLobby == 0

Pos(x, y) == [x |-> x, y |-> y]
RightDir == Pos(1, 0)

\* Direction payloads of player_input messages (JSON objects with x and/or y).
DirPayloads == << Pos(1, 0), Pos(0, 1), Pos(-1, 0), Pos(1, Undefined), Pos(0, -1), Pos(0, 0) >>
DirInputs == { DirPayloads[i] : i \in 1..(IF NumDirPayloads < Len(DirPayloads) THEN NumDirPayloads ELSE Len(DirPayloads)) }

\* Cells the random spawn positions are drawn from.
SpawnCands == << Pos(4, 3), Pos(3, 4), Pos(4, 4), Pos(2, 3) >>
SpawnCells == { SpawnCands[i] : i \in 1..(IF NumSpawnCells < Len(SpawnCands) THEN NumSpawnCells ELSE Len(SpawnCands)) }

\* Object.keys(WEAPONS)
WeaponKeys == << "double_score", "speed_boost", "shield", "ghost", "laser", "shrink", "magnet", "freeze", "food_bomb", "teleport" >>
WeaponTypes == { WeaponKeys[i] : i \in 1..(IF NumWeaponTypes < Len(WeaponKeys) THEN NumWeaponTypes ELSE Len(WeaponKeys)) }

\* gameSettings sent with create_lobby: maxGameTime is the countdown plus MaxTicks ticks.
MaxGameTime == CountdownFrom * CountdownStepMs + MaxTicks * GameSpeed
CustomSettings == [ boardSize |-> BoardSize, gameSpeed |-> GameSpeed, weaponsEnabled |-> TRUE,
                    maxGameTime |-> MaxGameTime, winCondition |-> "last_standing" ]

SeqToSet(s) == { s[i] : i \in 1..Len(s) }
RemoveFromSeq(s, e) == SelectSeq(s, LAMBDA v : v # e)

VARIABLES
  player,          \* Player objects: id -> fields (conn is the transport's state)
  lobby,           \* Lobby objects: id -> fields and pending timers
  players,         \* GameManager.players, in insertion order (ids of the sessions' players)
  lobbies,         \* GameManager.lobbies (registered lobby ids)
  playerToLobby,   \* GameManager.playerToLobby
  cleanupInterval, \* GameManager.cleanupInterval is running
  crashed,         \* an exception escaped a timer callback (the process is gone)
  gamesStarted,    \* number of games started so far
  effectsApplied,  \* number of applyWeaponEffect calls so far
  commands,        \* number of lobby commands received so far
  inputs,          \* number of direction inputs passed to updateDirection so far
  lastInput,       \* the last updateDirection call: player, direction before, payload, result
  silent           \* sessions that sent no message for more than the inactivity timeout

vars == << player, lobby, players, lobbies, playerToLobby, cleanupInterval, crashed,
           gamesStarted, effectsApplied, commands, inputs, lastInput, silent >>

\* ------------------------------------------------------------ constructors
\* new Player(ws): weapons.js 289-313.  The effect flags are not set by the constructor.
NewPlayer ==
  [ conn |-> "new", lobbyId |-> NoLobby, isReady |-> FALSE, isAlive |-> TRUE, score |-> 0,
    snake |-> << >>, direction |-> RightDir, weapon |-> "null",
    kills |-> 0, deaths |-> 0, gamesPlayed |-> 0, gamesWon |-> 0,
    scoreMultiplier |-> Undefined, speedMultiplier |-> "undefined",
    isInvincible |-> "undefined", canPhaseThrough |-> "undefined",
    effectTimers |-> << >>, lastActivity |-> "recent" ]

\* new Lobby(id, maxPlayers): lobby.js 8-33.
NewLobby ==
  [ created |-> FALSE, maxPlayers |-> LobbyMaxPlayers, players |-> << >>, gameState |-> "waiting",
    gameSettings |-> CustomSettings, food |-> << >>, weapons |-> << >>,
    gameStartTime |-> "null", gameTime |-> 0, gameLoop |-> "null", createdBy |-> NoPlayer,
    loopRunning |-> FALSE, autoStartTimers |-> 0, countdown |-> 0, resetTimers |-> 0,
    announced |-> << >>, winner |-> NoPlayer, isPrivate |-> FALSE, password |-> "null" ]

NoInput == [ p |-> NoPlayer, before |-> RightDir, payload |-> RightDir, result |-> FALSE ]

Init ==
  /\ player = [ p \in Players |-> NewPlayer ]
  /\ lobby = [ l \in LobbyIds |-> NewLobby ]
  /\ players = << >>
  /\ lobbies = {}
  /\ playerToLobby = [ p \in Players |-> NoLobby ]
  /\ cleanupInterval = TRUE
  /\ crashed = FALSE
  /\ gamesStarted = 0
  /\ effectsApplied = 0
  /\ commands = 0
  /\ inputs = 0
  /\ lastInput = NoInput
  /\ silent = {}

\* The mutable world the handlers transform.
World == [ pl |-> player, lb |-> lobby, mp |-> players, reg |-> lobbies, p2l |-> playerToLobby,
           crashed |-> crashed, silent |-> silent, ok |-> TRUE,
           eaten |-> [ p \in Players |-> 0 ], credited |-> [ p \in Players |-> 0 ],
           sent |-> {}, errors |-> {}, updates |-> [ p \in Players |-> 0 ] ]

\* ------------------------------------------------------------------ Player
\* Player.send: weapons.js 330-342.  lastActivity is "recent" while now - lastActivity is
\* within the inactivity timeout, and "expired" after.  sent is the set of sessions the
\* handler has sent a message to.
Send(W, p) ==
  IF W.pl[p].conn = "open"
  THEN [ W EXCEPT !.pl[p].lastActivity = "recent", !.sent = @ \cup { p } ]
  ELSE W

\* player.send({type: 'error', ...}); errors is the set of sessions the handler has sent
\* an error message to.
SendError(W, p) ==
  IF W.pl[p].conn = "open" THEN [ Send(W, p) EXCEPT !.errors = @ \cup { p } ] ELSE W

\* Player.resetForGame: weapons.js 449-455.
ResetForGame(W, p) ==
  [ W EXCEPT !.pl[p].snake = << >>, !.pl[p].isAlive = TRUE, !.pl[p].isReady = FALSE,
             !.pl[p].weapon = "null", !.pl[p].direction = RightDir ]

\* Player.kill: weapons.js 412-429.
Kill(W, p) ==
  Send([ W EXCEPT !.pl[p].isAlive = FALSE, !.pl[p].deaths = @ + 1 ], p)

\* Player.awardKill: weapons.js 434-444.
AwardKill(W, p) ==
  Send([ W EXCEPT !.pl[p].kills = @ + 1, !.pl[p].score = @ + KillScore,
                  !.credited[p] = @ + 1 ], p)

\* Player.growSnake: weapons.js 397-400.
GrowSnake(W, p) ==
  [ W EXCEPT !.pl[p].score = @ + FoodScore ]

\* Player.removeTail: weapons.js 405-407.
RemoveTail(W, p) ==
  [ W EXCEPT !.pl[p].snake = IF Len(@) = 0 THEN @ ELSE SubSeq(@, 1, Len(@) - 1) ]

\* updateDirection accepting only a direction that differs from the opposite on both axes.
UpdateDirection_BothAxes(cur, new) ==
  LET opposite == Pos(JsNeg(cur.x), JsNeg(cur.y)) IN
  IF ~JsStrictEq(new.x, opposite.x) /\ ~JsStrictEq(new.y, opposite.y)
  THEN [ direction |-> new, ok |-> TRUE ]
  ELSE [ direction |-> cur, ok |-> FALSE ]

\* Player.updateDirection: weapons.js 364-376.  The result is [direction, ok].
UpdateDirection(cur, new) ==
  LET opposite == Pos(JsNeg(cur.x), JsNeg(cur.y)) IN
  IF ~JsStrictEq(new.x, opposite.x) \/ ~JsStrictEq(new.y, opposite.y)
  THEN [ direction |-> new, ok |-> TRUE ]
  ELSE [ direction |-> cur, ok |-> FALSE ]

\* Player.moveSnake: weapons.js 381-392.
MoveSnake(W, p) ==
  LET s == W.pl[p].snake
      d == W.pl[p].direction IN
  IF ~W.pl[p].isAlive \/ Len(s) = 0 THEN W
  ELSE [ W EXCEPT !.pl[p].snake = << Pos(JsAdd(s[1].x, d.x), JsAdd(s[1].y, d.y)) >> \o s ]

\* ------------------------------------------------------------------- Lobby
\* Lobby.broadcast: lobby.js 531-536.
RECURSIVE SendAll(_, _)
SendAll(W, seq) ==
  IF Len(seq) = 0 THEN W ELSE SendAll(Send(W, Head(seq)), Tail(seq))

Broadcast(W, l) == SendAll(W, W.lb[l].players)

\* Lobby.getAlivePlayers: lobby.js 105-107.
GetAlivePlayers(W, l) == SelectSeq(W.lb[l].players, LAMBDA p : W.pl[p].isAlive)

\* Lobby.getReadyPlayers: lobby.js 112-114.
GetReadyPlayers(W, l) == SelectSeq(W.lb[l].players, LAMBDA p : W.pl[p].isReady)

\* canStartGame without the test of the game state.
CanStartGame_AnyState(W, l) ==
  /\ Len(W.lb[l].players) >= 2
  /\ Len(GetReadyPlayers(W, l)) = Len(W.lb[l].players)

\* Lobby.canStartGame: lobby.js 144-148.
CanStartGame(W, l) ==
  /\ W.lb[l].gameState = "waiting"
  /\ Len(W.lb[l].players) >= 2
  /\ Len(GetReadyPlayers(W, l)) = Len(W.lb[l].players)

\* endGame without the assignment this.gameLoop = null.
EndGame_KeepsHandle(W, l) ==
  LET W1 == [ W EXCEPT !.lb[l].loopRunning = IF W.lb[l].gameLoop # "null" THEN FALSE ELSE @,
                       !.lb[l].gameState = "finished" ]
      alive == GetAlivePlayers(W1, l)
      W2 == IF Len(alive) = 1 THEN [ W1 EXCEPT !.pl[alive[1]].gamesWon = @ + 1 ] ELSE W1
      W3 == [ Broadcast(W2, l) EXCEPT !.lb[l].winner = IF Len(alive) = 1 THEN alive[1] ELSE NoPlayer ]
  IN [ W3 EXCEPT !.lb[l].resetTimers = @ + 1 ]

\* endGame without winner.gamesWon++.
EndGame_NoAward(W, l) ==
  LET W1 == [ W EXCEPT !.lb[l].loopRunning = IF W.lb[l].gameLoop # "null" THEN FALSE ELSE @,
                       !.lb[l].gameLoop = "null",
                       !.lb[l].gameState = "finished" ]
      alive == GetAlivePlayers(W1, l)
      W3 == [ Broadcast(W1, l) EXCEPT !.lb[l].winner = IF Len(alive) = 1 THEN alive[1] ELSE NoPlayer ]
  IN [ W3 EXCEPT !.lb[l].resetTimers = @ + 1 ]

\* Lobby.endGame: lobby.js 331-359.  winner is the winner field of game_ended (NoPlayer
\* for null).
EndGame(W, l) ==
  LET W1 == [ W EXCEPT !.lb[l].loopRunning = IF W.lb[l].gameLoop # "null" THEN FALSE ELSE @,
                       !.lb[l].gameLoop = "null",
                       !.lb[l].gameState = "finished" ]
      alive == GetAlivePlayers(W1, l)
      W2 == IF Len(alive) = 1 THEN [ W1 EXCEPT !.pl[alive[1]].gamesWon = @ + 1 ] ELSE W1
      W3 == [ Broadcast(W2, l) EXCEPT !.lb[l].winner = IF Len(alive) = 1 THEN alive[1] ELSE NoPlayer ]
  IN [ W3 EXCEPT !.lb[l].resetTimers = @ + 1 ]

\* Lobby.addPlayer: lobby.js 38-63.  ok is the result's success.
Lobby_addPlayer(W, l, p) ==
  IF Len(W.lb[l].players) >= W.lb[l].maxPlayers THEN [ W EXCEPT !.ok = FALSE ]
  ELSE IF W.lb[l].gameState = "playing" THEN [ W EXCEPT !.ok = FALSE ]
  ELSE
    LET W1 == [ W EXCEPT !.lb[l].players = Append(@, p), !.pl[p].lobbyId = l ]
        W2 == ResetForGame(W1, p)
        W3 == IF W2.lb[l].createdBy = NoPlayer THEN [ W2 EXCEPT !.lb[l].createdBy = p ] ELSE W2
    IN [ Broadcast(W3, l) EXCEPT !.ok = TRUE ]

\* removePlayer without the transfer of ownership.
Lobby_removePlayer_KeepsCreator(W, l, p) ==
  IF p \notin SeqToSet(W.lb[l].players) THEN W
  ELSE
    LET W1 == [ W EXCEPT !.lb[l].players = RemoveFromSeq(@, p), !.pl[p].lobbyId = NoLobby ]
        W3 == Broadcast(W1, l)
    IN IF W3.lb[l].gameState = "playing" /\ Len(GetAlivePlayers(W3, l)) <= 1
       THEN EndGame(W3, l)
       ELSE W3

\* Lobby.removePlayer: lobby.js 68-93.
Lobby_removePlayer(W, l, p) ==
  IF p \notin SeqToSet(W.lb[l].players) THEN W
  ELSE
    LET W1 == [ W EXCEPT !.lb[l].players = RemoveFromSeq(@, p), !.pl[p].lobbyId = NoLobby ]
        W2 == IF W1.lb[l].createdBy = p /\ Len(W1.lb[l].players) > 0
              THEN [ W1 EXCEPT !.lb[l].createdBy = W1.lb[l].players[1] ]
              ELSE W1
        W3 == Broadcast(W2, l)
    IN IF W3.lb[l].gameState = "playing" /\ Len(GetAlivePlayers(W3, l)) <= 1
       THEN EndGame(W3, l)
       ELSE W3

\* The comparator without the test of the alive status.
CompareRank_IgnoresAlive(W, a, b) ==
  IF W.pl[a].score # W.pl[b].score THEN W.pl[b].score - W.pl[a].score
  ELSE W.pl[b].kills - W.pl[a].kills

\* The comparator of Lobby.calculateRankings: lobby.js 366-372.
CompareRank(W, a, b) ==
  IF W.pl[a].isAlive /\ ~W.pl[b].isAlive THEN -1
  ELSE IF ~W.pl[a].isAlive /\ W.pl[b].isAlive THEN 1
  ELSE IF W.pl[a].score # W.pl[b].score THEN W.pl[b].score - W.pl[a].score
  ELSE W.pl[b].kills - W.pl[a].kills

\* Array.prototype.sort is stable: an element goes behind the elements it does not precede.
RECURSIVE InsertRanked(_, _, _)
InsertRanked(W, sorted, a) ==
  IF Len(sorted) = 0 THEN << a >>
  ELSE IF CompareRank(W, a, Head(sorted)) < 0 THEN << a >> \o sorted
  ELSE << Head(sorted) >> \o InsertRanked(W, Tail(sorted), a)

RECURSIVE SortRanked(_, _, _)
SortRanked(W, sorted, seq) ==
  IF Len(seq) = 0 THEN sorted ELSE SortRanked(W, InsertRanked(W, sorted, Head(seq)), Tail(seq))

\* Lobby.calculateRankings: lobby.js 364-378.
CalculateRankings(W, l) ==
  LET sorted == SortRanked(W, << >>, W.lb[l].players) IN
  [ i \in 1..Len(sorted) |->
      [ rank |-> i, player |-> sorted[i], finalScore |-> W.pl[sorted[i]].score ] ]

\* Lobby.resetLobby: lobby.js 383-397.
RECURSIVE ResetAll(_, _)
ResetAll(W, seq) ==
  IF Len(seq) = 0 THEN W ELSE ResetAll(ResetForGame(W, Head(seq)), Tail(seq))

ResetLobby(W, l) ==
  LET W1 == [ W EXCEPT !.lb[l].gameState = "waiting", !.lb[l].gameStartTime = "null",
                       !.lb[l].gameTime = 0, !.lb[l].food = << >>, !.lb[l].weapons = << >> ]
  IN Broadcast(ResetAll(W1, W1.lb[l].players), l)

\* ------------------------------------------------------------- GameManager
\* getPublicLobbies without the test of isPrivate.
GetPublicLobbies_WaitingOnly(W) ==
  { l \in W.reg : W.lb[l].gameState = "waiting" }

\* GameManager.getPublicLobbies: gameManager.js 393-404.  The ids of the listed lobbies.
GetPublicLobbies(W) ==
  { l \in W.reg : ~W.lb[l].isPrivate /\ W.lb[l].gameState = "waiting" }

\* GameManager.removePlayer: gameManager.js 42-60.
GameManager_removePlayer(W, p) ==
  IF p \notin SeqToSet(W.mp) THEN W
  ELSE
    LET lid == W.pl[p].lobbyId
        W1 == IF lid # NoLobby /\ lid \in W.reg THEN Lobby_removePlayer(W, lid, p) ELSE W
    IN [ W1 EXCEPT !.mp = RemoveFromSeq(@, p), !.p2l[p] = NoLobby ]

\* The transport is closed.  A Player object that neither the manager nor a lobby
\* refers to any more is unreachable; its fields are dropped.
CloseSession(W, p) ==
  IF p \notin SeqToSet(W.mp) /\ \A l \in LobbyIds : p \notin SeqToSet(W.lb[l].players)
  THEN [ W EXCEPT !.pl[p] = [ NewPlayer EXCEPT !.conn = "closed" ] ]
  ELSE [ W EXCEPT !.pl[p].conn = "closed" ]

\* Commit a transformed world to the variables.
Commit(W) ==
  /\ player' = W.pl
  /\ lobby' = W.lb
  /\ players' = W.mp
  /\ lobbies' = W.reg
  /\ playerToLobby' = W.p2l
  /\ crashed' = W.crashed
  /\ silent' = { p \in W.silent : W.pl[p].conn = "open" }

\* ------------------------------------------------------------- item spawns
SamePos(a, x, y) == JsStrictEq(a.x, x) /\ JsStrictEq(a.y, y)

\* isPositionOccupied without the test of the snakes.
IsPositionOccupied_ItemsOnly(W, l, x, y) ==
  \/ \E i \in 1..Len(W.lb[l].food) : SamePos(W.lb[l].food[i], x, y)
  \/ \E i \in 1..Len(W.lb[l].weapons) : SamePos(W.lb[l].weapons[i], x, y)

\* Lobby.isPositionOccupied: lobby.js 455-482.
IsPositionOccupied(W, l, x, y) ==
  \/ \E p \in SeqToSet(W.lb[l].players) :
        W.pl[p].isAlive /\ \E i \in 1..Len(W.pl[p].snake) : SamePos(W.pl[p].snake[i], x, y)
  \/ \E i \in 1..Len(W.lb[l].food) : SamePos(W.lb[l].food[i], x, y)
  \/ \E i \in 1..Len(W.lb[l].weapons) : SamePos(W.lb[l].weapons[i], x, y)

\* The cells of the board isPositionOccupied is true for: those of the segments of the
\* alive members and of the items.
OccupiedCells(W, l) ==
  LET b == W.lb[l].gameSettings.boardSize
      held == UNION { { Pos(W.pl[p].snake[i].x, W.pl[p].snake[i].y) : i \in 1..Len(W.pl[p].snake) } :
                        p \in { q \in SeqToSet(W.lb[l].players) : W.pl[q].isAlive } }
              \cup { Pos(W.lb[l].food[i].x, W.lb[l].food[i].y) : i \in 1..Len(W.lb[l].food) }
              \cup { Pos(W.lb[l].weapons[i].x, W.lb[l].weapons[i].y) : i \in 1..Len(W.lb[l].weapons) }
  IN { c \in held : c.x \in 0..(b - 1) /\ c.y \in 0..(b - 1) }

\* const maxAttempts = 100: lobby.js 406 and 434.
MaxAttempts == 100

\* The positions Math.random gives the rounds of one loop: position a for the first n
\* rounds and position b from then on.
SampleAt(d, i) == IF i <= d.n THEN d.a ELSE d.b

\* The sequences of positions drawn for one spawn: a cell of SpawnCells from the first
\* round on, or an occupied cell for all rounds but the last and a cell of SpawnCells in
\* the last.  All occupied cells are rejected alike; one stands for them.
Draws(W, l) ==
  LET occupied == OccupiedCells(W, l)
      rejected == IF occupied = {} THEN {} ELSE { CHOOSE c \in occupied : TRUE }
  IN { [ n |-> 0, a |-> c, b |-> c ] : c \in SpawnCells }
     \cup { [ n |-> MaxAttempts - 1, a |-> a, b |-> c ] : a \in rejected, c \in SpawnCells }

\* isPositionOccupied for the two positions of the samples d; the board does not change
\* while one loop runs.
Occupied(W, l, d) ==
  [ a |-> IsPositionOccupied(W, l, d.a.x, d.a.y), b |-> IsPositionOccupied(W, l, d.b.x, d.b.y) ]

\* do { sample; attempts++ } while (isPositionOccupied && attempts < maxAttempts):
\* lobby.js 408-417 and 436-444.  The result is the last sample and the attempts made.
RECURSIVE SampleLoop(_, _, _)
SampleLoop(d, occupied, attempts) ==
  IF (IF attempts + 1 <= d.n THEN occupied.a ELSE occupied.b) /\ attempts + 1 < MaxAttempts
  THEN SampleLoop(d, occupied, attempts + 1)
  ELSE [ cell |-> SampleAt(d, attempts + 1), attempts |-> attempts + 1 ]

\* One round of the for loop of Lobby.generateFood with the samples d: lobby.js 403-422.
FoodRound(W, l, d) ==
  LET r == SampleLoop(d, Occupied(W, l, d), 0) IN
  IF r.attempts < MaxAttempts
  THEN [ W EXCEPT !.lb[l].food = Append(@, [ x |-> r.cell.x, y |-> r.cell.y, value |-> FoodScore ]) ]
  ELSE W

\* One round of the for loop of Lobby.generateWeapons with the samples d: lobby.js 431-449.
WeaponRound(W, l, d, type) ==
  LET r == SampleLoop(d, Occupied(W, l, d), 0) IN
  IF r.attempts < MaxAttempts
  THEN [ W EXCEPT !.lb[l].weapons = Append(@, [ x |-> r.cell.x, y |-> r.cell.y, type |-> type ]) ]
  ELSE W

\* The outcomes of one round of the loop of Lobby.generateFood.
GenerateOneFood(W, l) == { FoodRound(W, l, d) : d \in Draws(W, l) }

\* The outcomes of one round of the loop of Lobby.generateWeapons.
GenerateOneWeapon(W, l) ==
  { WeaponRound(W, l, dt[1], dt[2]) : dt \in Draws(W, l) \X WeaponTypes }

\* Lobby.generateFood(count): lobby.js 402-423, over a set of worlds.
RECURSIVE GenerateFood(_, _, _)
GenerateFood(Ws, l, count) ==
  IF count = 0 THEN Ws
  ELSE GenerateFood(UNION { GenerateOneFood(W, l) : W \in Ws }, l, count - 1)

\* Lobby.generateWeapons(count): lobby.js 428-450, over a set of worlds.
RECURSIVE GenerateWeapons(_, _, _)
GenerateWeapons(Ws, l, count) ==
  IF count = 0 THEN Ws
  ELSE GenerateWeapons(UNION { GenerateOneWeapon(W, l) : W \in Ws }, l, count - 1)

\* ------------------------------------------------------------- game start
\* Math.floor(Math.random() * (boardSize - 6)) + 3: weapons.js 348-349.
StartCoords(boardSize) ==
  IF boardSize > 6 THEN 3..(boardSize - 4) ELSE (boardSize - 3)..3

\* Player.initializeSnake: weapons.js 347-359, over a set of worlds.
InitializeSnake(Ws, p, boardSize) ==
  { [ W EXCEPT !.pl[p].snake = << Pos(sx, sy), Pos(sx - 1, sy), Pos(sx - 2, sy) >>,
               !.pl[p].isAlive = TRUE,
               !.pl[p].direction = RightDir ] :
      W \in Ws, sx \in StartCoords(boardSize), sy \in StartCoords(boardSize) }

RECURSIVE InitializePlayers(_, _, _)
InitializePlayers(Ws, seq, boardSize) ==
  IF Len(seq) = 0 THEN Ws
  ELSE InitializePlayers(
         { [ W EXCEPT !.pl[Head(seq)].gamesPlayed = @ + 1 ] :
             W \in InitializeSnake(Ws, Head(seq), boardSize) },
         Tail(seq), boardSize)

\* A message of the start sequence, with its countdown or count field: lobby.js 172-193.
\* announced is the sequence of these messages the lobby has broadcast since startGame.
Msg(type, n) == [ type |-> type, n |-> n ]

\* Lobby.startGame, lobby.js 156-157: the state is starting and the start time is taken.
BeginStart(W, l) ==
  [ W EXCEPT !.lb[l].gameState = "starting", !.lb[l].gameStartTime = "set", !.lb[l].gameTime = 0 ]

\* Lobby.startGame, lobby.js 165-178: the items are generated, game_starting is broadcast
\* and the countdown begins, over the worlds Ws the placement of the snakes has given.
FinishStart(Ws, l) ==
  LET Ws3 == GenerateFood(Ws, l, InitialFood)
      Ws4 == UNION { IF W.lb[l].gameSettings.weaponsEnabled
                     THEN GenerateWeapons({ W }, l, InitialWeapons) ELSE { W } : W \in Ws3 }
  IN { [ Broadcast(W4, l) EXCEPT !.lb[l].countdown = CountdownFrom,
                                 !.lb[l].announced = << Msg("game_starting", CountdownFrom) >> ] :
       W4 \in Ws4 }

\* startGame without the test of canStartGame.
StartGame_Unchecked(W, l) ==
  LET W1 == BeginStart(W, l) IN
  FinishStart(InitializePlayers({ W1 }, W1.lb[l].players, W1.lb[l].gameSettings.boardSize), l)

\* Lobby.startGame: lobby.js 153-199.  The set of worlds the random draws can give.
StartGame(W, l) ==
  IF ~CanStartGame(W, l) THEN { W }
  ELSE
    LET W1 == BeginStart(W, l) IN
    FinishStart(InitializePlayers({ W1 }, W1.lb[l].players, W1.lb[l].gameSettings.boardSize), l)

\* ------------------------------------------------------------- tick engine
\* The forEach over the other players of Lobby.checkCollisions: lobby.js 267-277.
\* The return leaves the callback of one other player only.
RECURSIVE OtherPlayersCollision(_, _, _, _)
OtherPlayersCollision(W, seq, p, head) ==
  IF Len(seq) = 0 THEN W
  ELSE
    LET o == Head(seq)
        hit == /\ o # p
               /\ W.pl[o].isAlive
               /\ \E i \in 1..Len(W.pl[o].snake) : SamePos(W.pl[o].snake[i], head.x, head.y)
    IN OtherPlayersCollision(IF hit THEN AwardKill(Kill(W, p), o) ELSE W, Tail(seq), p, head)

\* The food filter of Lobby.checkCollisions: lobby.js 280-286.
RECURSIVE FoodCollision(_, _, _, _, _)
FoodCollision(W, l, p, head, i) ==
  IF i > Len(W.lb[l].food) THEN W
  ELSE IF SamePos(W.lb[l].food[i], head.x, head.y)
       THEN FoodCollision(
              [ GrowSnake(W, p) EXCEPT
                  !.lb[l].food = SubSeq(@, 1, i - 1) \o SubSeq(@, i + 1, Len(@)),
                  !.eaten[p] = @ + 1 ],
              l, p, head, i)
       ELSE FoodCollision(W, l, p, head, i + 1)

\* The weapon filter of Lobby.checkCollisions: lobby.js 295-305.
RECURSIVE WeaponCollision(_, _, _, _, _)
WeaponCollision(W, l, p, head, i) ==
  IF i > Len(W.lb[l].weapons) THEN W
  ELSE IF SamePos(W.lb[l].weapons[i], head.x, head.y)
       THEN WeaponCollision(
              Send([ W EXCEPT
                       !.pl[p].weapon = W.lb[l].weapons[i].type,
                       !.lb[l].weapons = SubSeq(@, 1, i - 1) \o SubSeq(@, i + 1, Len(@)) ], p),
              l, p, head, i)
       ELSE WeaponCollision(W, l, p, head, i + 1)

\* The wall test of Lobby.checkCollisions: lobby.js 253.
WallCollision(head, boardSize) ==
  JsLt(head.x, 0) \/ JsGe(head.x, boardSize) \/ JsLt(head.y, 0) \/ JsGe(head.y, boardSize)

\* The self test of Lobby.checkCollisions: lobby.js 259-264.
SelfCollision(snake) ==
  \E i \in 2..Len(snake) : SamePos(snake[i], snake[1].x, snake[1].y)

\* The tail removal of Lobby.checkCollisions: lobby.js 289-292.  originalLength is read
\* after the food filter, so the comparison is always true.
NormalMovement(W, p) ==
  LET originalLength == Len(W.pl[p].snake) IN
  IF Len(W.pl[p].snake) = originalLength THEN RemoveTail(W, p) ELSE W

\* checkCollisions with the tail removed when the player dies at the wall.
CheckCollisions_WallTrimsTail(W, l, p) ==
  LET snake == W.pl[p].snake IN
  IF Len(snake) = 0 THEN [ W EXCEPT !.crashed = TRUE ]
  ELSE
    LET head == snake[1] IN
    IF WallCollision(head, W.lb[l].gameSettings.boardSize) THEN Kill(RemoveTail(W, p), p)
    ELSE IF SelfCollision(snake) THEN Kill(W, p)
    ELSE
      LET W1 == OtherPlayersCollision(W, W.lb[l].players, p, head)
          W2 == FoodCollision(W1, l, p, head, 1)
          W3 == NormalMovement(W2, p)
      IN WeaponCollision(W3, l, p, head, 1)

\* Lobby.checkCollisions: lobby.js 248-306.  Reading the head of an empty snake throws.
CheckCollisions(W, l, p) ==
  LET snake == W.pl[p].snake IN
  IF Len(snake) = 0 THEN [ W EXCEPT !.crashed = TRUE ]
  ELSE
    LET head == snake[1] IN
    IF WallCollision(head, W.lb[l].gameSettings.boardSize) THEN Kill(W, p)
    ELSE IF SelfCollision(snake) THEN Kill(W, p)
    ELSE
      LET W1 == OtherPlayersCollision(W, W.lb[l].players, p, head)
          W2 == FoodCollision(W1, l, p, head, 1)
          W3 == NormalMovement(W2, p)
      IN WeaponCollision(W3, l, p, head, 1)

\* The forEach over the alive players of Lobby.updateGame: lobby.js 217-221.
RECURSIVE MoveAll(_, _, _)
MoveAll(W, l, seq) ==
  IF Len(seq) = 0 \/ W.crashed THEN W
  ELSE MoveAll(CheckCollisions(MoveSnake(W, Head(seq)), l, Head(seq)), l, Tail(seq))

\* Lobby.checkWinCondition: lobby.js 311-326.
CheckWinCondition(W, l) ==
  \/ Len(GetAlivePlayers(W, l)) <= 1
  \/ W.lb[l].gameTime >= W.lb[l].gameSettings.maxGameTime

\* this.broadcast({type: 'game_update', ...}): lobby.js 239-242.  updates counts the
\* game_update messages the handler has sent to each session.
BroadcastUpdate(W, l) ==
  [ Broadcast(W, l) EXCEPT
      !.updates = [ p \in Players |->
                    IF p \in SeqToSet(W.lb[l].players) /\ W.pl[p].conn = "open"
                    THEN @[p] + 1 ELSE @[p] ] ]

\* Lobby.updateGame: lobby.js 213-243.  The set of worlds the random draws can give.
UpdateGame(W, l) ==
  IF W.lb[l].gameState # "playing" THEN { W }
  ELSE
    LET W1 == MoveAll(W, l, GetAlivePlayers(W, l)) IN
    IF W1.crashed THEN { W1 }
    ELSE IF CheckWinCondition(W1, l) THEN { EndGame(W1, l) }
    ELSE
      LET Ws2 == { W1 } \cup GenerateFood({ W1 }, l, 1)
          Ws3 == IF W1.lb[l].gameSettings.weaponsEnabled
                 THEN Ws2 \cup GenerateWeapons(Ws2, l, 1) ELSE Ws2
      IN { BroadcastUpdate(W3, l) : W3 \in Ws3 }

\* ----------------------------------------------------------------- actions
Running == ~crashed

Quiet == /\ gamesStarted' = gamesStarted
         /\ effectsApplied' = effectsApplied
         /\ cleanupInterval' = cleanupInterval
         /\ commands' = commands
         /\ inputs' = inputs

\* A lobby command is received.
Command == /\ commands < MaxCommands
           /\ commands' = commands + 1
           /\ inputs' = inputs
           /\ gamesStarted' = gamesStarted
           /\ effectsApplied' = effectsApplied
           /\ cleanupInterval' = cleanupInterval

\* The world when a message of the session arrives: the session is not silent.
Received(p) == [ World EXCEPT !.silent = @ \ { p } ]

\* GameManager.addPlayer: gameManager.js 23-37, for the Player object p of the new session.
GameManager_addPlayer(W, p) ==
  Send([ W EXCEPT !.pl[p].conn = "open", !.mp = Append(@, p) ], p)

\* wss.on('connection'): index.js 27-64.
Connect(p) ==
  /\ Running
  /\ player[p].conn = "new"
  /\ p <= NumSessions
  /\ Commit(GameManager_addPlayer(World, p))
  /\ lastInput' = NoInput
  /\ Quiet

\* ws.on('close') / ws.on('error'): index.js 48-57.
Disconnect(p) ==
  /\ Running
  /\ player[p].conn = "open"
  /\ Commit(CloseSession(GameManager_removePlayer([ World EXCEPT !.pl[p].conn = "closed" ], p), p))
  /\ lastInput' = NoInput
  /\ Quiet

\* The first lobby id not used yet (uuidv4() never repeats).
FreshLobby == { l \in LobbyIds : ~lobby[l].created /\ \A k \in LobbyIds : k < l => lobby[k].created }

\* data.maxPlayers || 4: gameManager.js 160.
DefaultMaxPlayers == 4
MaxPlayersOrDefault(n) == IF n = 0 \/ n = Undefined \/ n = NaN THEN DefaultMaxPlayers ELSE n

\* data.password || null: gameManager.js 163.
PasswordOrNull(pw) == IF pw = "undefined" THEN "null" ELSE pw

\* GameManager.handleCreateLobby: gameManager.js 151-188.  data holds maxPlayers,
\* isPrivate, password and gameSettings of the create_lobby message.
HandleCreateLobbyData(W, p, l, data) ==
  IF W.pl[p].lobbyId # NoLobby THEN SendError(W, p)
  ELSE
    LET W1 == [ W EXCEPT !.lb[l] = [ NewLobby EXCEPT !.created = TRUE,
                                                     !.maxPlayers = MaxPlayersOrDefault(data.maxPlayers),
                                                     !.isPrivate = data.isPrivate,
                                                     !.password = PasswordOrNull(data.password),
                                                     !.gameSettings = data.gameSettings ],
                         !.reg = @ \cup { l } ]
        W2 == Lobby_addPlayer(W1, l, p)
    IN IF W2.ok THEN Send([ W2 EXCEPT !.p2l[p] = l ], p) ELSE SendError(W2, p)

\* create_lobby for a public lobby without password.
CreateLobbyWith(W, p, l, maxPlayers, gameSettings) ==
  HandleCreateLobbyData(W, p, l, [ maxPlayers |-> maxPlayers, isPrivate |-> FALSE,
                                   password |-> "undefined", gameSettings |-> gameSettings ])

\* create_lobby with the data the clients of Spec send.
HandleCreateLobby(W, p, l) == CreateLobbyWith(W, p, l, LobbyMaxPlayers, CustomSettings)

CreateLobby(p) ==
  /\ Running
  /\ player[p].conn = "open"
  /\ \E l \in FreshLobby : Commit(HandleCreateLobby(Received(p), p, l))
  /\ lastInput' = NoInput
  /\ Command

\* GameManager.handleJoinLobby: gameManager.js 193-236, with the password of the message.
HandleJoinLobbyData(W, p, l, password) ==
  IF W.pl[p].lobbyId # NoLobby THEN SendError(W, p)
  ELSE IF l \notin W.reg THEN SendError(W, p)
  ELSE IF W.lb[l].isPrivate /\ W.lb[l].password # password THEN SendError(W, p)
  ELSE
    LET W2 == Lobby_addPlayer(W, l, p)
    IN IF W2.ok THEN Send([ W2 EXCEPT !.p2l[p] = l ], p) ELSE SendError(W2, p)

\* join_lobby without password.
HandleJoinLobby(W, p, l) == HandleJoinLobbyData(W, p, l, "undefined")

JoinLobby(p, l) ==
  /\ Running
  /\ player[p].conn = "open"
  /\ Commit(HandleJoinLobby(Received(p), p, l))
  /\ lastInput' = NoInput
  /\ Command

\* handleLeaveLobby without this.playerToLobby.delete(playerId).
HandleLeaveLobby_KeepsMapping(W, p) ==
  LET lid == W.pl[p].lobbyId IN
  IF lid = NoLobby THEN Send(W, p)
  ELSE IF lid \in W.reg THEN Send(Lobby_removePlayer(W, lid, p), p) ELSE W

\* GameManager.handleLeaveLobby: gameManager.js 241-261.
HandleLeaveLobby(W, p) ==
  LET lid == W.pl[p].lobbyId IN
  IF lid = NoLobby THEN Send(W, p)
  ELSE IF lid \in W.reg
       THEN Send([ Lobby_removePlayer(W, lid, p) EXCEPT !.p2l[p] = NoLobby ], p)
       ELSE W

LeaveLobby(p) ==
  /\ Running
  /\ player[p].conn = "open"
  /\ Commit(HandleLeaveLobby(Received(p), p))
  /\ lastInput' = NoInput
  /\ Command

\* Lobby.setPlayerReady: lobby.js 119-139.  A timeout for startGame is scheduled when
\* the game can start.
SetPlayerReady(W, l, p, ready) ==
  IF p \notin SeqToSet(W.lb[l].players) THEN W
  ELSE
    LET W1 == Broadcast([ W EXCEPT !.pl[p].isReady = ready ], l)
    IN IF CanStartGame(W1, l) THEN [ W1 EXCEPT !.lb[l].autoStartTimers = @ + 1 ] ELSE W1

\* GameManager.handleSetReady: gameManager.js 266-279.
HandleSetReady(W, p, ready) ==
  LET lid == W.pl[p].lobbyId IN
  IF lid = NoLobby THEN Send(W, p)
  ELSE IF lid \in W.reg THEN SetPlayerReady(W, lid, p, ready) ELSE W

SetReady(p, ready) ==
  /\ Running
  /\ player[p].conn = "open"
  /\ LET W == HandleSetReady(Received(p), p, ready) IN
       /\ \A l \in LobbyIds : W.lb[l].autoStartTimers <= MaxAutoStart
       /\ Commit(W)
  /\ lastInput' = NoInput
  /\ Command

\* create_lobby messages: a public lobby, a private lobby with a password, and a lobby
\* with a maxPlayers below 1.
CreateData ==
  { [ maxPlayers |-> LobbyMaxPlayers, isPrivate |-> FALSE, password |-> "undefined",
      gameSettings |-> CustomSettings ],
    [ maxPlayers |-> LobbyMaxPlayers, isPrivate |-> TRUE, password |-> "secret",
      gameSettings |-> CustomSettings ],
    [ maxPlayers |-> -1, isPrivate |-> FALSE, password |-> "undefined",
      gameSettings |-> CustomSettings ] }

\* Passwords of join_lobby messages ("undefined" when the field is absent).
Passwords == { "undefined", "secret" }

CreateLobbyData(p, data) ==
  /\ Running
  /\ player[p].conn = "open"
  /\ \E l \in FreshLobby : Commit(HandleCreateLobbyData(Received(p), p, l, data))
  /\ lastInput' = NoInput
  /\ Command

JoinLobbyData(p, l, password) ==
  /\ Running
  /\ player[p].conn = "open"
  /\ Commit(HandleJoinLobbyData(Received(p), p, l, password))
  /\ lastInput' = NoInput
  /\ Command

\* { ...this.gameSettings, ...newSettings }: lobby.js 601.
MergeSettings(old, new) ==
  [ k \in DOMAIN old \cup DOMAIN new |-> IF k \in DOMAIN new THEN new[k] ELSE old[k] ]

\* updateSettings without the test of the creator.
UpdateSettings_AnyMember(W, l, p, newSettings) ==
  IF W.lb[l].gameState # "waiting" THEN [ W EXCEPT !.ok = FALSE ]
  ELSE [ Broadcast([ W EXCEPT !.lb[l].gameSettings = MergeSettings(@, newSettings) ], l)
           EXCEPT !.ok = TRUE ]

\* Lobby.updateSettings: lobby.js 596-609.  ok is the result.
UpdateSettings(W, l, p, newSettings) ==
  IF p # W.lb[l].createdBy \/ W.lb[l].gameState # "waiting" THEN [ W EXCEPT !.ok = FALSE ]
  ELSE [ Broadcast([ W EXCEPT !.lb[l].gameSettings = MergeSettings(@, newSettings) ], l)
           EXCEPT !.ok = TRUE ]

\* GameManager.handleUpdateLobbySettings: gameManager.js 369-388.
HandleUpdateLobbySettings(W, p, newSettings) ==
  LET lid == W.pl[p].lobbyId IN
  IF lid = NoLobby THEN SendError(W, p)
  ELSE IF lid \in W.reg
       THEN LET W1 == UpdateSettings(W, lid, p, newSettings)
            IN IF W1.ok THEN W1 ELSE SendError(W1, p)
       ELSE W

\* settings of update_lobby_settings messages.
SettingsSent == { [ boardSize |-> BoardSize + 2 ], [ winCondition |-> "time_limit" ] }

UpdateLobbySettings(p, newSettings) ==
  /\ Running
  /\ player[p].conn = "open"
  /\ Commit(HandleUpdateLobbySettings(Received(p), p, newSettings))
  /\ lastInput' = NoInput
  /\ Command

\* Lobby.handleWeaponUse: lobby.js 504-526.
HandleWeaponUse(W, p) ==
  IF W.pl[p].weapon \notin SeqToSet(WeaponKeys) THEN W
  ELSE [ W EXCEPT !.pl[p].weapon = "null" ]

\* Lobby.handlePlayerInput: lobby.js 487-499, for {type: 'direction', direction}.
Lobby_handleDirection(W, l, p, direction) ==
  IF p \notin SeqToSet(W.lb[l].players) \/ ~W.pl[p].isAlive \/ W.lb[l].gameState # "playing"
  THEN W
  ELSE [ W EXCEPT !.pl[p].direction = UpdateDirection(@, direction).direction ]

\* Lobby.handlePlayerInput: lobby.js 487-499, for {type: 'use_weapon'}.
Lobby_handleUseWeapon(W, l, p) ==
  IF p \notin SeqToSet(W.lb[l].players) \/ ~W.pl[p].isAlive \/ W.lb[l].gameState # "playing"
  THEN W
  ELSE IF W.pl[p].weapon # "null" THEN HandleWeaponUse(W, p) ELSE W

\* The updateDirection call a direction input leads to, if it leads to one.
DirectionCall(p, direction) ==
  LET lid == player[p].lobbyId IN
  IF /\ lid # NoLobby /\ lid \in lobbies
     /\ p \in SeqToSet(lobby[lid].players) /\ player[p].isAlive
     /\ lobby[lid].gameState = "playing"
  THEN [ p |-> p, before |-> player[p].direction, payload |-> direction,
         result |-> UpdateDirection(player[p].direction, direction).ok ]
  ELSE NoInput

\* GameManager.handlePlayerInput: gameManager.js 284-291, direction input.
DirectionInput(p, direction) ==
  /\ Running
  /\ player[p].conn = "open"
  /\ LET lid == player[p].lobbyId IN
       Commit(IF lid # NoLobby /\ lid \in lobbies
              THEN Lobby_handleDirection(Received(p), lid, p, direction) ELSE Received(p))
  /\ lastInput' = DirectionCall(p, direction)
  /\ inputs < MaxInputs
  /\ inputs' = IF DirectionCall(p, direction) # NoInput THEN inputs + 1 ELSE inputs
  /\ gamesStarted' = gamesStarted
  /\ effectsApplied' = effectsApplied
  /\ cleanupInterval' = cleanupInterval
  /\ commands' = commands

\* GameManager.handlePlayerInput: gameManager.js 284-291, use_weapon input.
UseWeapon(p) ==
  /\ Running
  /\ player[p].conn = "open"
  /\ LET lid == player[p].lobbyId IN
       Commit(IF lid # NoLobby /\ lid \in lobbies
              THEN Lobby_handleUseWeapon(Received(p), lid, p) ELSE Received(p))
  /\ lastInput' = NoInput
  /\ Quiet

\* The timeout of Lobby.setPlayerReady fires: lobby.js 135.
AutoStartFire(l) ==
  /\ Running
  /\ lobby[l].autoStartTimers > 0
  /\ LET W == [ World EXCEPT !.lb[l].autoStartTimers = @ - 1 ]
         starts == CanStartGame(W, l) IN
       /\ starts => gamesStarted < MaxGames
       /\ \E W2 \in StartGame(W, l) : Commit(W2)
       /\ gamesStarted' = IF starts THEN gamesStarted + 1 ELSE gamesStarted
  /\ lastInput' = NoInput
  /\ effectsApplied' = effectsApplied
  /\ cleanupInterval' = cleanupInterval
  /\ commands' = commands
  /\ inputs' = inputs

\* Lobby.startGameLoop: lobby.js 204-208.
StartGameLoop(W, l) ==
  [ W EXCEPT !.lb[l].gameLoop = "interval", !.lb[l].loopRunning = TRUE ]

\* The countdown interval of Lobby.startGame fires: lobby.js 179-196.  The auto-start
\* timeouts (2 s) have fired before the countdown (3 s) ends.
CountdownStep(W, l) ==
  LET W1 == [ W EXCEPT !.lb[l].countdown = @ - 1, !.lb[l].gameTime = @ + CountdownStepMs ] IN
  IF W1.lb[l].countdown > 0
  THEN [ Broadcast(W1, l) EXCEPT !.lb[l].announced = Append(@, Msg("countdown", W1.lb[l].countdown)) ]
  ELSE [ Broadcast(StartGameLoop([ W1 EXCEPT !.lb[l].gameState = "playing" ], l), l)
           EXCEPT !.lb[l].announced = Append(@, Msg("game_started", 0)) ]

CountdownFire(l) ==
  /\ Running
  /\ lobby[l].countdown > 0
  /\ lobby[l].countdown = 1 => lobby[l].autoStartTimers = 0
  /\ Commit(CountdownStep(World, l))
  /\ lastInput' = NoInput
  /\ Quiet

\* The game loop interval fires: lobby.js 205-207.
Tick(l) ==
  /\ Running
  /\ lobby[l].loopRunning
  /\ \E W \in UpdateGame([ World EXCEPT !.lb[l].gameTime = @ + lobby[l].gameSettings.gameSpeed ], l) :
       Commit(W)
  /\ lastInput' = NoInput
  /\ Quiet

\* The reset timeout of Lobby.endGame fires: lobby.js 356-358.
ResetFire(l) ==
  /\ Running
  /\ lobby[l].resetTimers > 0
  /\ Commit(ResetLobby([ World EXCEPT !.lb[l].resetTimers = @ - 1 ], l))
  /\ lastInput' = NoInput
  /\ Quiet

\* A timer of the lobby is pending.
TimersPending(l) ==
  \/ lobby[l].autoStartTimers > 0 \/ lobby[l].countdown > 0
  \/ lobby[l].loopRunning \/ lobby[l].resetTimers > 0

\* now - player.lastActivity > timeout: gameManager.js 446.
Inactive(W, p) == W.pl[p].lastActivity = "expired"

\* GameManager.cleanupInactivePlayers: gameManager.js 441-456.  The test is made when the
\* iteration reaches the player; ws.close ends the session.
RECURSIVE CleanupInactivePlayers(_, _)
CleanupInactivePlayers(W, seq) ==
  IF Len(seq) = 0 THEN W
  ELSE LET p == Head(seq) IN
       CleanupInactivePlayers(
         IF Inactive(W, p) THEN CloseSession(GameManager_removePlayer(W, p), p) ELSE W,
         Tail(seq))

\* More than the inactivity timeout (5 min) passes without any event: every timer of the
\* lobbies (at most 10 s) has fired before, and no game loop runs that long.  Afterwards
\* every session has sent nothing and has been sent nothing for more than the timeout.
LongPause ==
  /\ Running
  /\ \A l \in LobbyIds : ~TimersPending(l)
  /\ \E p \in Players :
       player[p].conn = "open" /\ (player[p].lastActivity = "recent" \/ p \notin silent)
  /\ Commit([ World EXCEPT
               !.pl = [ p \in Players |->
                          IF player[p].conn = "open"
                          THEN [ player[p] EXCEPT !.lastActivity = "expired" ]
                          ELSE player[p] ],
               !.silent = { p \in Players : player[p].conn = "open" } ])
  /\ lastInput' = NoInput
  /\ Quiet

\* GameManager.cleanupEmptyLobbies: gameManager.js 461-474.
CleanupEmptyLobbies(W) ==
  [ W EXCEPT !.reg = { l \in @ : Len(W.lb[l].players) # 0 } ]

\* The cleanup interval fires: gameManager.js 14-17.
Sweep ==
  /\ Running
  /\ cleanupInterval
  /\ Commit(CleanupEmptyLobbies(CleanupInactivePlayers(World, players)))
  /\ lastInput' = NoInput
  /\ Quiet

\* GameManager.shutdown: gameManager.js 488-508.
ShutdownWorld(W) ==
  SendAll([ W EXCEPT !.lb = [ l \in LobbyIds |->
                                IF l \in W.reg /\ W.lb[l].gameLoop # "null"
                                THEN [ W.lb[l] EXCEPT !.loopRunning = FALSE ]
                                ELSE W.lb[l] ] ],
          W.mp)

Shutdown ==
  /\ Running
  /\ cleanupInterval
  /\ Commit(ShutdownWorld(World))
  /\ cleanupInterval' = FALSE
  /\ lastInput' = NoInput
  /\ gamesStarted' = gamesStarted
  /\ effectsApplied' = effectsApplied
  /\ commands' = commands
  /\ inputs' = inputs

\* applyWeaponEffect(player, weaponType, gameState): weapons.js 207-273, with the lobby as
\* gameState (it has neither generateFoodAt nor findSafePosition).  ok is the result.
ApplyWeaponEffect(W, p, weaponType) ==
  IF weaponType \notin SeqToSet(WeaponKeys) THEN [ W EXCEPT !.ok = FALSE ]
  ELSE IF weaponType = "speed_boost"
       THEN [ W EXCEPT !.pl[p].speedMultiplier = "1.5", !.pl[p].effectTimers = Append(@, weaponType) ]
  ELSE IF weaponType = "shield"
       THEN [ W EXCEPT !.pl[p].isInvincible = "true", !.pl[p].effectTimers = Append(@, weaponType) ]
  ELSE IF weaponType = "ghost"
       THEN [ W EXCEPT !.pl[p].canPhaseThrough = "true", !.pl[p].effectTimers = Append(@, weaponType) ]
  ELSE IF weaponType = "double_score"
       THEN [ W EXCEPT !.pl[p].scoreMultiplier = DoubleScoreMultiplier,
                       !.pl[p].effectTimers = Append(@, weaponType) ]
  ELSE IF weaponType \in { "food_bomb", "teleport" } THEN W
  ELSE [ W EXCEPT !.ok = FALSE ]

\* The timeout callbacks of applyWeaponEffect: weapons.js 215-217, 223-225, 231-233, 239-241.
EffectTimeout(W, p, i) ==
  LET weaponType == W.pl[p].effectTimers[i]
      W1 == [ W EXCEPT !.pl[p].effectTimers = SubSeq(@, 1, i - 1) \o SubSeq(@, i + 1, Len(@)) ]
  IN IF weaponType = "speed_boost" THEN [ W1 EXCEPT !.pl[p].speedMultiplier = "1" ]
     ELSE IF weaponType = "shield" THEN [ W1 EXCEPT !.pl[p].isInvincible = "false" ]
     ELSE IF weaponType = "ghost" THEN [ W1 EXCEPT !.pl[p].canPhaseThrough = "false" ]
     ELSE [ W1 EXCEPT !.pl[p].scoreMultiplier = 1 ]

\* applyWeaponEffect is called for an alive player of a running game, at most limit times.
ApplyEffectUpTo(p, weaponType, limit) ==
  /\ Running
  /\ effectsApplied < limit
  /\ player[p].conn = "open" /\ player[p].isAlive
  /\ player[p].lobbyId # NoLobby /\ lobby[player[p].lobbyId].gameState = "playing"
  /\ p \in SeqToSet(lobby[player[p].lobbyId].players)
  /\ Commit(ApplyWeaponEffect(World, p, weaponType))
  /\ effectsApplied' = effectsApplied + 1
  /\ lastInput' = NoInput
  /\ gamesStarted' = gamesStarted
  /\ cleanupInterval' = cleanupInterval
  /\ commands' = commands
  /\ inputs' = inputs

ApplyEffect(p, weaponType) == ApplyEffectUpTo(p, weaponType, MaxEffects)

\* A timeout of applyWeaponEffect fires; timeouts of one duration fire in order.
EffectExpire(p, i) ==
  /\ Running
  /\ i \in 1..Len(player[p].effectTimers)
  /\ \A j \in 1..(i - 1) : player[p].effectTimers[j] # player[p].effectTimers[i]
  /\ Commit(EffectTimeout(World, p, i))
  /\ lastInput' = NoInput
  /\ Quiet

Next ==
  \/ \E p \in Players : Connect(p)
  \/ \E p \in Players : Disconnect(p)
  \/ \E p \in Players : CreateLobby(p)
  \/ \E p \in Players, l \in LobbyIds : JoinLobby(p, l)
  \/ \E p \in Players : LeaveLobby(p)
  \/ \E p \in Players, ready \in BOOLEAN : SetReady(p, ready)
  \/ \E p \in Players, d \in DirInputs : DirectionInput(p, d)
  \/ \E p \in Players : UseWeapon(p)
  \/ \E l \in LobbyIds : AutoStartFire(l)
  \/ \E l \in LobbyIds : CountdownFire(l)
  \/ \E l \in LobbyIds : Tick(l)
  \/ \E l \in LobbyIds : ResetFire(l)
  \/ Sweep
  \/ LongPause

Spec == Init /\ [][Next]_vars

\* The server with GameManager.shutdown called at some point (index.js never calls it).
NextShutdown == Next \/ Shutdown

SpecShutdown == Init /\ [][NextShutdown]_vars

\* The server with applyWeaponEffect called for players of running games (the server
\* itself never calls it).
NextFx ==
  \/ Next
  \/ \E p \in Players, t \in WeaponTypes : ApplyEffect(p, t)
  \/ \E p \in Players, i \in 1..MaxEffects : EffectExpire(p, i)

SpecFx == Init /\ [][NextFx]_vars

\* ------------------------------------------------- games under way at the start
\* The world after construction.
World0 ==
  [ pl |-> [ p \in Players |-> NewPlayer ], lb |-> [ l \in LobbyIds |-> NewLobby ],
    mp |-> << >>, reg |-> {}, p2l |-> [ p \in Players |-> NoLobby ],
    crashed |-> FALSE, silent |-> {}, ok |-> TRUE,
    eaten |-> [ p \in Players |-> 0 ], credited |-> [ p \in Players |-> 0 ],
    sent |-> {}, errors |-> {}, updates |-> [ p \in Players |-> 0 ] ]

\* The members connect, the first creates lobby l, the others join it, and all set ready:
\* addPlayer, handleCreateLobby, handleJoinLobby and handleSetReady in turn.
RECURSIVE ConnectAll(_, _)
ConnectAll(W, seq) ==
  IF Len(seq) = 0 THEN W ELSE ConnectAll(GameManager_addPlayer(W, Head(seq)), Tail(seq))

RECURSIVE JoinAll(_, _, _)
JoinAll(W, seq, l) ==
  IF Len(seq) = 0 THEN W ELSE JoinAll(HandleJoinLobby(W, Head(seq), l), Tail(seq), l)

RECURSIVE ReadyAll(_, _)
ReadyAll(W, seq) ==
  IF Len(seq) = 0 THEN W ELSE ReadyAll(HandleSetReady(W, Head(seq), TRUE), Tail(seq))

ReadyLobby(W, l, members, gameSettings) ==
  LET W1 == ConnectAll(W, members)
      W2 == CreateLobbyWith(W1, Head(members), l, Len(members), gameSettings)
      W3 == JoinAll(W2, Tail(members), l)
  IN ReadyAll(W3, members)

\* The variables hold the world W, with the given numbers of commands and games so far.
InitFrom(W, cmds, games) ==
  /\ player = W.pl
  /\ lobby = W.lb
  /\ players = W.mp
  /\ lobbies = W.reg
  /\ playerToLobby = W.p2l
  /\ crashed = W.crashed
  /\ silent = W.silent
  /\ cleanupInterval = TRUE
  /\ gamesStarted = games
  /\ effectsApplied = 0
  /\ commands = cmds
  /\ inputs = 0
  /\ lastInput = NoInput

\* A board with two start coordinates per axis.
MeleeSettings == [ CustomSettings EXCEPT !.boardSize = BoardSize + 2 ]

\* Three players have made a lobby and set ready; no further lobby command arrives.
InitMelee == InitFrom(ReadyLobby(World0, 1, << 1, 2, 3 >>, MeleeSettings), MaxCommands, 0)

NextMelee ==
  \/ \E l \in LobbyIds : AutoStartFire(l)
  \/ \E l \in LobbyIds : CountdownFire(l)
  \/ \E l \in LobbyIds : Tick(l)
  \/ \E p \in Players, d \in DirInputs : DirectionInput(p, d)
  \/ \E l \in LobbyIds : ResetFire(l)

SpecMelee == InitMelee /\ [][NextMelee]_vars

\* Number of lobby commands that arrive after the two players of SpecDuel have set ready.
DuelCommands == 2
\* Largest boardSize of the lobbies whose start is examined; the smallest is 10.
MaxStartBoard == 11

\* Two players have made a lobby and set ready; DuelCommands more lobby commands arrive.
InitDuel ==
  InitFrom(ReadyLobby(World0, 1, << 1, 2 >>, CustomSettings), MaxCommands - DuelCommands, 0)

NextDuel ==
  \/ \E p \in Players : Disconnect(p)
  \/ \E p \in Players : CreateLobby(p)
  \/ \E p \in Players, l \in LobbyIds : JoinLobby(p, l)
  \/ \E p \in Players : LeaveLobby(p)
  \/ \E p \in Players, ready \in BOOLEAN : SetReady(p, ready)
  \/ \E p \in Players, d \in DirInputs : DirectionInput(p, d)
  \/ \E p \in Players : UseWeapon(p)
  \/ \E l \in LobbyIds : AutoStartFire(l)
  \/ \E l \in LobbyIds : CountdownFire(l)
  \/ \E l \in LobbyIds : Tick(l)
  \/ \E l \in LobbyIds : ResetFire(l)
  \/ Sweep
  \/ LongPause

SpecDuel == InitDuel /\ [][NextDuel]_vars

\* Three sessions are connected; they create, join and leave lobbies, public and private,
\* and change their settings.
InitLobby == InitFrom(ConnectAll(World0, << 1, 2, 3 >>), 0, 0)

NextLobby ==
  \/ \E p \in Players, data \in CreateData : CreateLobbyData(p, data)
  \/ \E p \in Players, l \in LobbyIds, pw \in Passwords : JoinLobbyData(p, l, pw)
  \/ \E p \in Players : LeaveLobby(p)
  \/ \E p \in Players, ready \in BOOLEAN : SetReady(p, ready)
  \/ \E p \in Players, ns \in SettingsSent : UpdateLobbySettings(p, ns)
  \/ \E l \in LobbyIds : AutoStartFire(l)
  \/ \E l \in LobbyIds : CountdownFire(l)
  \/ \E l \in LobbyIds : ResetFire(l)
  \/ Sweep

SpecLobby == InitLobby /\ [][NextLobby]_vars

\* Two lobbies of two players each, all ready; DuelCommands more commands arrive.
InitPair ==
  InitFrom(ReadyLobby(ReadyLobby(World0, 1, << 1, 2 >>, CustomSettings), 2, << 3, 4 >>,
                      CustomSettings),
           MaxCommands - DuelCommands, 0)

NextPair ==
  \/ \E p \in Players, l \in LobbyIds : JoinLobby(p, l)
  \/ \E p \in Players : LeaveLobby(p)
  \/ \E l \in LobbyIds : AutoStartFire(l)
  \/ \E l \in LobbyIds : CountdownFire(l)
  \/ \E l \in LobbyIds : Tick(l)
  \/ \E l \in LobbyIds : ResetFire(l)

SpecPair == InitPair /\ [][NextPair]_vars

\* The default gameSettings of a lobby: lobby.js 13-19.
DefaultBoardSize == 20
DefaultMaxGameTime == 300000
DefaultSettings == [ boardSize |-> DefaultBoardSize, gameSpeed |-> GameSpeed, weaponsEnabled |-> TRUE,
                     maxGameTime |-> DefaultMaxGameTime, winCondition |-> "last_standing" ]

\* Two players on a default board: the outcomes of startGame that put the head of
\* player 1 on (3,3) and the head of player 2 on (3,10).
SoloStarts ==
  LET W0 == ReadyLobby(World0, 1, << 1, 2 >>, DefaultSettings)
      W1 == BeginStart([ W0 EXCEPT !.lb[1].autoStartTimers = @ - 1 ], 1)
      Ws2 == { W \in InitializePlayers({ W1 }, W1.lb[1].players, W1.lb[1].gameSettings.boardSize) :
                 /\ W.pl[1].snake[1] = Pos(3, 3)
                 /\ W.pl[2].snake[1] = Pos(3, 10) }
  IN FinishStart(Ws2, 1)

InitSolo == \E W \in SoloStarts : InitFrom(W, MaxCommands, 1)

\* Player 1 sends no input.
NextSolo ==
  \/ \E d \in DirInputs : DirectionInput(2, d)
  \/ \E l \in LobbyIds : CountdownFire(l)
  \/ \E l \in LobbyIds : Tick(l)
  \/ \E l \in LobbyIds : ResetFire(l)

SpecSolo == InitSolo /\ [][NextSolo]_vars

\* Two players are ready in a lobby made with a boardSize from 10 on; the lobby starts and
\* counts down.
InitStart ==
  \E b \in 10..MaxStartBoard :
    InitFrom(ReadyLobby(World0, 1, << 1, 2 >>, [ DefaultSettings EXCEPT !.boardSize = b ]),
             MaxCommands, 0)

NextStart ==
  \/ \E l \in LobbyIds : AutoStartFire(l)
  \/ \E l \in LobbyIds : CountdownFire(l)

SpecStart == InitStart /\ [][NextStart]_vars

\* Number of applyWeaponEffect calls made in SpecOverlap.
OverlapEffects == 2

\* Two players are ready in a lobby; applyWeaponEffect is called up to OverlapEffects
\* times for players of the running game.
InitOverlap == InitFrom(ReadyLobby(World0, 1, << 1, 2 >>, CustomSettings), MaxCommands, 0)

NextOverlap ==
  \/ \E l \in LobbyIds : AutoStartFire(l)
  \/ \E l \in LobbyIds : CountdownFire(l)
  \/ \E l \in LobbyIds : Tick(l)
  \/ \E l \in LobbyIds : ResetFire(l)
  \/ \E p \in Players, d \in DirInputs : DirectionInput(p, d)
  \/ \E p \in Players, t \in WeaponTypes : ApplyEffectUpTo(p, t, OverlapEffects)
  \/ \E p \in Players, i \in 1..OverlapEffects : EffectExpire(p, i)

SpecOverlap == InitOverlap /\ [][NextOverlap]_vars

\* Two players are ready in a lobby and a third session is connected; DuelCommands more
\* lobby commands arrive, and sessions close.
InitLate ==
  InitFrom(GameManager_addPlayer(ReadyLobby(World0, 1, << 1, 2 >>, CustomSettings), 3),
           MaxCommands - DuelCommands, 0)

NextLate ==
  \/ \E p \in Players : Disconnect(p)
  \/ \E p \in Players, l \in LobbyIds : JoinLobby(p, l)
  \/ \E p \in Players : LeaveLobby(p)
  \/ \E l \in LobbyIds : AutoStartFire(l)
  \/ \E l \in LobbyIds : CountdownFire(l)
  \/ \E l \in LobbyIds : Tick(l)
  \/ \E l \in LobbyIds : ResetFire(l)

SpecLate == InitLate /\ [][NextLate]_vars

\* ------------------------------------------------------------------ claims
Members(l) == SeqToSet(lobby[l].players)

\* The step is a firing of the game loop interval of the playing lobby l.
TickOf(l) ==
  /\ ~crashed
  /\ lobby[l].loopRunning
  /\ lobby[l].gameState = "playing"
  /\ lobby'[l].gameTime = lobby[l].gameTime + lobby[l].gameSettings.gameSpeed

\* The player moves at the next tick of its lobby.
Moves(l, p) == p \in Members(l) /\ player[p].isAlive /\ Len(player[p].snake) > 0

\* The cell the head of the player moves onto at the next tick.
NextHead(p) ==
  Pos(JsAdd(player[p].snake[1].x, player[p].direction.x),
      JsAdd(player[p].snake[1].y, player[p].direction.y))

OnBoard(c, boardSize) == c.x \in 0..(boardSize - 1) /\ c.y \in 0..(boardSize - 1)

\* C1: when the heads of two alive snakes move onto the same cell in the same tick, both
\* die, the deaths of each grow by one, neither gets a kill or score, and if no other
\* player is alive the game ends without a winner.
C1_HeadOnHeadBothDie ==
  [][ \A l \in LobbyIds, p \in Players, q \in Players :
        ( /\ TickOf(l) /\ p # q /\ Moves(l, p) /\ Moves(l, q)
          /\ SamePos(NextHead(p), NextHead(q).x, NextHead(q).y) )
        => /\ ~player'[p].isAlive /\ ~player'[q].isAlive
           /\ player'[p].deaths = player[p].deaths + 1
           /\ player'[q].deaths = player[q].deaths + 1
           /\ player'[p].kills = player[p].kills /\ player'[q].kills = player[q].kills
           /\ player'[p].score = player[p].score /\ player'[q].score = player[q].score
           /\ (\A m \in Members(l) \ { p, q } : ~player[m].isAlive)
              => /\ lobby'[l].gameState = "finished"
                 /\ \A m \in Members(l) : player'[m].gamesWon = player[m].gamesWon ]_vars

\* C2: when the head of an alive snake lands on a food item, the item is removed from the
\* food list and the snake is one segment longer after the tick.
C2_FoodGrowsSnake ==
  [][ \A l \in LobbyIds, p \in Players :
        ( /\ TickOf(l) /\ Moves(l, p)
          /\ \E i \in 1..Len(lobby[l].food) :
               SamePos(lobby[l].food[i], NextHead(p).x, NextHead(p).y)
          /\ player'[p].isAlive )
        => /\ \A i \in 1..Len(lobby'[l].food) :
                ~SamePos(lobby'[l].food[i], NextHead(p).x, NextHead(p).y)
           /\ Len(player'[p].snake) = Len(player[p].snake) + 1 ]_vars

\* What the tick of lobby l does to the players before the win check: lobby.js 214-221.
TickMoves(l) ==
  LET W == [ World EXCEPT !.lb[l].gameTime = @ + lobby[l].gameSettings.gameSpeed ]
  IN MoveAll(W, l, GetAlivePlayers(W, l))

\* The score multiplier of the player: 2 while double_score is active, else 1.
Multiplier(p) ==
  IF player[p].scoreMultiplier = DoubleScoreMultiplier THEN DoubleScoreMultiplier ELSE 1

\* C3: in a tick the score of a member grows by value x scoreMultiplier for every food item
\* it eats plus 50 for every kill it is credited with (kills growing by one each), and by
\* nothing else.
C3_ScoreDelta ==
  [][ \A l \in LobbyIds, p \in Players :
        ( TickOf(l) /\ p \in Members(l) )
        => /\ player'[p].score = player[p].score
                                  + FoodScore * Multiplier(p) * TickMoves(l).eaten[p]
                                  + KillScore * TickMoves(l).credited[p]
           /\ player'[p].kills = player[p].kills + TickMoves(l).credited[p] ]_vars

\* C4: a lobby with at least one member has its creator among its members, also when the
\* lobby was emptied and joined again before the sweep.
C4_CreatorIsMember ==
  \A l \in LobbyIds :
    Len(lobby[l].players) > 0 => lobby[l].createdBy \in Members(l)

\* C5: the tick handle gameLoop of a lobby is non-null exactly when its gameState is
\* playing, also after the manager's shutdown has stopped the ticks.
C5_LoopHandleIffPlaying ==
  \A l \in LobbyIds : (lobby[l].gameLoop # "null") <=> (lobby[l].gameState = "playing")

\* A playing lobby whose ticks the shutdown has stopped.
C5_PlayingAfterShutdown ==
  \E l \in LobbyIds :
    /\ ~cleanupInterval
    /\ lobby[l].gameState = "playing" /\ ~lobby[l].loopRunning /\ lobby[l].gameLoop # "null"

\* new is the exact negation of cur, on both components.
ExactNegation(new, cur) == JsStrictEq(new.x, JsNeg(cur.x)) /\ JsStrictEq(new.y, JsNeg(cur.y))

\* C6: a direction update for an alive player of a playing lobby returns false and leaves
\* the direction unchanged if and only if the new direction is the exact negation of the
\* current one; every other update replaces the current direction.
C6_RejectedIffNegation ==
  lastInput.p # NoPlayer =>
    /\ lastInput.result = ~ExactNegation(lastInput.payload, lastInput.before)
    /\ player[lastInput.p].direction =
         IF ExactNegation(lastInput.payload, lastInput.before)
         THEN lastInput.before ELSE lastInput.payload

\* A direction update has been rejected.
C6_UpdateRejected ==
  /\ lastInput.p # NoPlayer /\ ~lastInput.result
  /\ player[lastInput.p].direction = lastInput.before

\* The direction the snake moved with at its last move.
LastMove(p) ==
  Pos(JsAdd(player[p].snake[1].x, JsNeg(player[p].snake[2].x)),
      JsAdd(player[p].snake[1].y, JsNeg(player[p].snake[2].y)))

\* C7: the direction a snake moves with at a tick is never the exact negation of the
\* direction it moved with at the tick before, whatever inputs came in between.
C7_NoReversalBetweenTicks ==
  [][ \A l \in LobbyIds, p \in Players :
        ( /\ TickOf(l) /\ Moves(l, p) /\ Len(player[p].snake) >= 2
          /\ lobby[l].gameTime >= CountdownFrom * CountdownStepMs + lobby[l].gameSettings.gameSpeed )
        => ~ExactNegation(player[p].direction, LastMove(p)) ]_vars

\* C8: after every tick of a lobby, the segments of every alive snake are pairwise distinct
\* and lie within [0, boardSize) on both axes.
C8_SnakesOnBoardAndSimple ==
  \A l \in LobbyIds :
    ( /\ lobby[l].gameState \in { "playing", "finished" }
      /\ lobby[l].gameTime > CountdownFrom * CountdownStepMs )
    => \A p \in Members(l) :
         player[p].isAlive =>
           /\ \A i \in 1..Len(player[p].snake) :
                OnBoard(player[p].snake[i], lobby[l].gameSettings.boardSize)
           /\ \A i, j \in 1..Len(player[p].snake) :
                i # j => player[p].snake[i] # player[p].snake[j]

\* The cells of the items (food and weapons) of the lobby, in list order.
ItemCells(l) ==
  [ i \in 1..(Len(lobby[l].food) + Len(lobby[l].weapons)) |->
      IF i <= Len(lobby[l].food)
      THEN Pos(lobby[l].food[i].x, lobby[l].food[i].y)
      ELSE Pos(lobby[l].weapons[i - Len(lobby[l].food)].x, lobby[l].weapons[i - Len(lobby[l].food)].y) ]

\* C9: no food or weapon item is on a cell of a segment of an alive snake of its lobby, and
\* no two items of a lobby are on the same cell.
C9_ItemsOnFreeCells ==
  \A l \in LobbyIds :
    /\ \A p \in Members(l) :
         player[p].isAlive =>
           \A i \in 1..Len(player[p].snake), k \in 1..Len(ItemCells(l)) :
             ~SamePos(player[p].snake[i], ItemCells(l)[k].x, ItemCells(l)[k].y)
    /\ \A j, k \in 1..Len(ItemCells(l)) : j # k => ItemCells(l)[j] # ItemCells(l)[k]

\* A tick has passed in a playing lobby that holds an item on the cell next to a segment
\* of an alive snake.
C9_ItemNextToSnake ==
  \E l \in LobbyIds :
    /\ lobby[l].gameState = "playing"
    /\ lobby[l].gameTime > CountdownFrom * CountdownStepMs
    /\ \E p \in Members(l), k \in 1..Len(ItemCells(l)) :
         /\ player[p].isAlive
         /\ \E i \in 1..Len(player[p].snake) :
              SamePos(player[p].snake[i], ItemCells(l)[k].x - 1, ItemCells(l)[k].y)

\* C10: every player is a member of at most one lobby; its lobbyId is non-null exactly
\* when it is in the players map of the registered lobby with that id, and playerToLobby
\* maps it to the same lobby id.
C10_MembershipConsistent ==
  \A p \in Players :
    /\ Cardinality({ l \in LobbyIds : p \in Members(l) }) <= 1
    /\ (player[p].lobbyId # NoLobby)
         <=> (\E l \in lobbies : l = player[p].lobbyId /\ p \in Members(l))
    /\ \A l \in LobbyIds : p \in Members(l) => player[p].lobbyId = l
    /\ playerToLobby[p] = player[p].lobbyId

\* A player is in a second lobby while the lobby it created has another member.
C10_TwoLobbiesInUse ==
  \E p \in Players, q \in Players :
    /\ p # q
    /\ player[p].lobbyId # NoLobby /\ player[q].lobbyId # NoLobby
    /\ player[p].lobbyId # player[q].lobbyId
    /\ lobby[player[q].lobbyId].createdBy = p

\* The alive members processed before p in the tick of lobby l: lobby.js 217.
AliveBefore(l, p) ==
  LET alive == GetAlivePlayers(World, l)
      i == CHOOSE i \in 1..Len(alive) : alive[i] = p
  IN SubSeq(alive, 1, i - 1)

\* The world of the tick of lobby l when the collisions of p are checked, and after.
BeforeCheck(l, p) ==
  MoveSnake(MoveAll([ World EXCEPT !.lb[l].gameTime = @ + lobby[l].gameSettings.gameSpeed ],
                    l, AliveBefore(l, p)), p)
AfterCheck(l, p) == CheckCollisions(BeforeCheck(l, p), l, p)

\* The other alive members with a segment on the cell of p's head, in join order.
HitBy(W, l, p) ==
  SelectSeq(W.lb[l].players,
            LAMBDA o : /\ o # p /\ W.pl[o].isAlive
                       /\ \E i \in 1..Len(W.pl[o].snake) :
                            SamePos(W.pl[o].snake[i], W.pl[p].snake[1].x, W.pl[p].snake[1].y))

\* C11: when the head of a moving player lands on a segment of other alive players, the
\* player dies with deaths + 1, and exactly the first of them in join order gets one kill
\* (+1 kills, +50 score); segments of dead players neither kill nor earn credit.
C11_OneKillOneCredit ==
  [][ \A l \in LobbyIds, p \in Players :
        ( /\ TickOf(l) /\ Moves(l, p)
          /\ ~BeforeCheck(l, p).crashed
          /\ ~WallCollision(BeforeCheck(l, p).pl[p].snake[1], lobby[l].gameSettings.boardSize)
          /\ ~SelfCollision(BeforeCheck(l, p).pl[p].snake) )
        => LET B == BeforeCheck(l, p)
               A == AfterCheck(l, p)
               hit == HitBy(B, l, p)
           IN /\ A.pl[p].isAlive = (Len(hit) = 0)
              /\ A.pl[p].deaths = B.pl[p].deaths + (IF Len(hit) = 0 THEN 0 ELSE 1)
              /\ player'[p].deaths = A.pl[p].deaths
              /\ \A o \in Members(l) \ { p } :
                   LET credit == IF Len(hit) > 0 /\ o = hit[1] THEN 1 ELSE 0
                   IN /\ A.pl[o].kills = B.pl[o].kills + credit
                      /\ A.pl[o].score = B.pl[o].score + KillScore * credit ]_vars

\* C12: in a playing lobby every member with isAlive = true has a snake of at least one
\* segment, whenever the member joined (in any state but playing).
C12_AliveMembersHaveSnakes ==
  \A l \in LobbyIds :
    lobby[l].gameState = "playing" =>
      \A p \in Members(l) : player[p].isAlive => Len(player[p].snake) >= 1

\* C13: every message a session sends sets its lastActivity to the time of receipt, and
\* nothing but a message of the session advances its lastActivity.
C13_ActivityFollowsInbound ==
  [][ \A p \in Players :
        ( player[p].conn = "open" /\ player'[p].conn = "open" )
        => /\ ( p \in silent /\ p \notin silent' ) => player'[p].lastActivity = "recent"
           /\ ( player[p].lastActivity = "expired" /\ player'[p].lastActivity = "recent" )
              => ( p \in silent /\ p \notin silent' ) ]_vars

\* The world after a firing of the cleanup interval: gameManager.js 14-17.
SweepWorld == CleanupEmptyLobbies(CleanupInactivePlayers(World, players))

\* C14: a session that has sent no message for more than 5 minutes is removed from the
\* session registry by the next sweep, also when it is still being sent lobby broadcasts,
\* and it is a member of no lobby afterwards.
C14_SilentSessionSwept ==
  ( ~crashed /\ cleanupInterval ) =>
    \A p \in silent :
      /\ p \notin SeqToSet(SweepWorld.mp)
      /\ \A l \in LobbyIds : p \notin SeqToSet(SweepWorld.lb[l].players)

\* The step is a firing of an auto-start timeout of lobby l.
AutoStartOf(l) == ~crashed /\ lobby'[l].autoStartTimers = lobby[l].autoStartTimers - 1

\* C15: a lobby leaves waiting for starting only at a moment when it is waiting, has at
\* least 2 members and every member is ready; an auto-start timer that fires when this
\* does not hold starts nothing and leaves the state as it is, so that several pending
\* timers start at most one game.
C15_StartRevalidated ==
  [][ \A l \in LobbyIds :
        /\ ( lobby[l].gameState = "waiting" /\ lobby'[l].gameState = "starting" )
           => /\ Len(lobby[l].players) >= 2
              /\ \A p \in Members(l) : player[p].isReady
        /\ ( AutoStartOf(l) /\ ~CanStartGame(World, l) )
           => /\ lobby' = [ lobby EXCEPT ![l].autoStartTimers = @ - 1 ]
              /\ player' = player
        /\ ( AutoStartOf(l) /\ CanStartGame(World, l) )
           => lobby'[l].gameState = "starting" ]_vars

\* A game has started while a second auto-start timer of the lobby is still pending.
C15_SecondTimerPending ==
  \E l \in LobbyIds : lobby[l].gameState = "starting" /\ lobby[l].autoStartTimers > 0

\* The messages of a start, in order.
StartSequence ==
  << Msg("game_starting", 3), Msg("countdown", 2), Msg("countdown", 1), Msg("game_started", 0) >>

\* The start sequence is broadcast in order: a starting lobby has broadcast a prefix of it
\* that ends before game_started, and game_started is broadcast in the step that sets
\* gameState to playing and starts the tick engine.
C16_StartSequenceInOrder ==
  [][ \A l \in LobbyIds :
        /\ lobby'[l].gameState = "starting"
           => \E n \in 1..3 : lobby'[l].announced = SubSeq(StartSequence, 1, n)
        /\ ( lobby[l].gameState = "starting" /\ lobby'[l].gameState # "starting" /\ ~crashed' )
           => /\ lobby[l].announced = SubSeq(StartSequence, 1, 3)
              /\ lobby'[l].announced = StartSequence
              /\ lobby'[l].gameState = "playing" /\ lobby'[l].loopRunning ]_vars

\* C16: after a successful startGame the lobby broadcasts game_starting {3}, countdown {2},
\* countdown {1} in this order, then sets playing, starts the tick engine and broadcasts
\* game_started; every lobby that enters starting reaches playing: in every state, a
\* starting lobby's countdown is still going to fire.
C16_StartingReachesPlaying ==
  \A l \in LobbyIds :
    lobby[l].gameState = "starting" => ~crashed /\ lobby[l].countdown > 0

\* In the step that takes a finished lobby back to waiting, its food and weapon lists are
\* empty and every member has an empty snake, isReady false, no weapon, isAlive true and
\* direction (1,0).
C17_ResetState ==
  [][ \A l \in LobbyIds :
        ( lobby[l].gameState = "finished" /\ lobby'[l].gameState # "finished" )
        => /\ lobby'[l].gameState = "waiting"
           /\ lobby'[l].resetTimers = lobby[l].resetTimers - 1
           /\ lobby'[l].food = << >> /\ lobby'[l].weapons = << >>
           /\ \A i \in 1..Len(lobby'[l].players) :
                LET m == player'[lobby'[l].players[i]] IN
                  /\ m.snake = << >> /\ ~m.isReady /\ m.weapon = "null"
                  /\ m.isAlive /\ m.direction = [ x |-> 1, y |-> 0 ] ]_vars

\* C17: every lobby that reaches finished returns to waiting when its reset timer fires,
\* with empty food and weapon lists and every member reset: in every state, a finished
\* lobby's reset timer is still going to fire.
C17_FinishedReturnsToWaiting ==
  \A l \in LobbyIds :
    lobby[l].gameState = "finished" => ~crashed /\ lobby[l].resetTimers > 0

\* The configured win condition of lobby l is met in the state after the step.
WinConditionMet(l) ==
  LET cond == lobby[l].gameSettings.winCondition IN
    \/ cond = "last_standing" /\
         Cardinality({ p \in Members(l) : player'[p].isAlive }) <= 1
    \/ cond = "time_limit" /\ lobby'[l].gameTime >= lobby[l].gameSettings.maxGameTime

\* C18: at the end of a tick the game ends exactly when the configured winCondition is
\* met: with last_standing exactly when at most one member is alive, with time_limit
\* exactly when now - gameStartTime >= maxGameTime.
C18_EndsPerWinCondition ==
  [][ \A l \in LobbyIds :
        ( TickOf(l) /\ ~crashed' )
        => ( lobby'[l].gameState = "finished" <=> WinConditionMet(l) ) ]_vars

\* The number of ticks of the lobby's game so far.
TicksDone(l) ==
  (lobby[l].gameTime - CountdownFrom * CountdownStepMs) \div lobby[l].gameSettings.gameSpeed

\* C19: when a game ends, the tick engine is stopped and gameState becomes finished; if
\* exactly one member is alive, that member's gamesWon grows by exactly 1 and it is the
\* winner of game_ended, otherwise no gamesWon changes and the winner is null.  With two
\* players on a board of 20, player 1 starting with its head on (3,3) and sending no
\* input, player 1 is alive up to tick 16 unless it runs into player 2, and when player 2
\* is alive after tick 17, player 1 is killed on tick 17 and the winner is player 2.
C19_WinnerAtGameEnd ==
  [][ \A l \in LobbyIds :
        /\ ( lobby[l].gameState = "playing" /\ lobby'[l].gameState # "playing" /\ ~crashed' )
           => LET alive == { p \in SeqToSet(lobby'[l].players) : player'[p].isAlive } IN
                /\ lobby'[l].gameState = "finished"
                /\ ~lobby'[l].loopRunning /\ lobby'[l].gameLoop = "null"
                /\ \A p \in Players :
                     player'[p].gamesWon =
                       player[p].gamesWon + (IF alive = { p } THEN 1 ELSE 0)
                /\ lobby'[l].winner = IF Cardinality(alive) = 1
                                      THEN CHOOSE p \in alive : TRUE ELSE NoPlayer
        /\ ( /\ TickOf(l) /\ lobby[l].players = << 1, 2 >>
             /\ lobby[l].gameSettings.boardSize = 20
             /\ player[1].isAlive /\ player[2].isAlive
             /\ player[1].snake[1].y = 3 /\ player[1].snake[1].x = 3 + TicksDone(l) )
           => IF TicksDone(l) < 16 /\ \A i \in 1..Len(player'[2].snake) :
                                        player'[2].snake[i] # NextHead(1)
              THEN player'[1].isAlive /\ player'[1].snake[1] = NextHead(1)
              ELSE TicksDone(l) = 16 /\ player'[2].isAlive
                   => /\ ~player'[1].isAlive
                      /\ lobby'[l].gameState = "finished" /\ lobby'[l].winner = 2 ]_vars

\* Player 1 has run into the wall on tick 17, player 2 is alive and has won.
C19_SoloWallDeath ==
  /\ lobby[1].gameState = "finished" /\ TicksDone(1) = 17
  /\ lobby[1].players = << 1, 2 >>
  /\ ~player[1].isAlive /\ player[1].snake[1] = Pos(20, 3) /\ player[2].isAlive
  /\ lobby[1].winner = 2 /\ player[2].gamesWon = 1

\* C20: immediately after startGame every member's snake has exactly 3 segments laid out
\* horizontally behind the head, all three with x and y within [3, boardSize-4], direction
\* (1,0) and isAlive true.
C20_InitialPlacement ==
  [][ \A l \in LobbyIds :
        ( lobby[l].gameState = "waiting" /\ lobby'[l].gameState = "starting" )
        => \A p \in Members(l) :
             LET sn == player'[p].snake
                 hi == lobby[l].gameSettings.boardSize - 4 IN
               /\ Len(sn) = 3
               /\ sn[2] = Pos(sn[1].x - 1, sn[1].y) /\ sn[3] = Pos(sn[1].x - 2, sn[1].y)
               /\ \A i \in 1..3 : sn[i].x \in 3..hi /\ sn[i].y \in 3..hi
               /\ player'[p].direction = Pos(1, 0) /\ player'[p].isAlive ]_vars

\* A case in which the claim has a join_lobby of session p for lobby l rejected.
JoinRejected(p, l, password) ==
  \/ player[p].lobbyId # NoLobby
  \/ l \notin lobbies
  \/ lobby[l].isPrivate /\ lobby[l].password # password
  \/ Len(lobby[l].players) >= lobby[l].maxPlayers
  \/ lobby[l].gameState = "playing"

\* The handler's result A sends an error to session p and nothing to anybody else, and
\* leaves the memberships, the lobbyId of p and playerToLobby as they are.
OnlyAnError(A, p) ==
  /\ A.errors = { p } /\ A.sent = { p }
  /\ \A k \in LobbyIds : A.lb[k].players = lobby[k].players
  /\ A.pl[p].lobbyId = player[p].lobbyId
  /\ A.p2l = playerToLobby

\* Every join_lobby in one of the rejection cases, and every create_lobby of a session
\* that is in a lobby, sends an error to the requester only and leaves every membership,
\* the requester's lobbyId and playerToLobby unchanged.
C21_RejectionLeavesState ==
  ~crashed =>
    \A p \in Players : player[p].conn = "open" =>
      /\ \A l \in LobbyIds, pw \in Passwords :
           JoinRejected(p, l, pw) => OnlyAnError(HandleJoinLobbyData(Received(p), p, l, pw), p)
      /\ \A l \in FreshLobby, data \in CreateData :
           player[p].lobbyId # NoLobby
             => LET A == HandleCreateLobbyData(Received(p), p, l, data)
                IN OnlyAnError(A, p) /\ A.reg = lobbies

\* C21: a join_lobby or create_lobby request is rejected when the requester is in a lobby,
\* the lobby is unknown, private with another password, full or playing; the rejection
\* sends an error to the requester only and changes no membership, lobbyId or
\* playerToLobby entry, so that every lobby has players.size <= maxPlayers.
C21_JoinRejection ==
  /\ C21_RejectionLeavesState
  /\ \A l \in lobbies : Len(lobby[l].players) <= lobby[l].maxPlayers

\* The outcomes of the game loop interval of lobby l firing now.
TickOutcomes(l) ==
  UpdateGame([ World EXCEPT !.lb[l].gameTime = @ + lobby[l].gameSettings.gameSpeed ], l)

\* C22: a tick that ends the game sends no game_update; every other tick of a playing
\* lobby sends exactly one game_update to every member, the same to all; a tick of a
\* lobby that is not playing sends none.
C22_OneUpdatePerTick ==
  \A l \in LobbyIds :
    ( ~crashed /\ lobby[l].loopRunning ) =>
      \A A \in TickOutcomes(l) :
        IF lobby[l].gameState = "playing" /\ A.lb[l].gameState = "playing"
        THEN \A p \in Players :
               A.updates[p] = IF p \in SeqToSet(A.lb[l].players) THEN 1 ELSE 0
        ELSE \A p \in Players : A.updates[p] = 0

\* C23: a use_weapon input of an alive player of a playing lobby who holds weapon type T
\* applies the effect of T to that player (speed_boost: speedMultiplier 1.5, shield:
\* isInvincible true, ghost: canPhaseThrough true, double_score: scoreMultiplier 2) and
\* sets player.weapon to null.
C23_UseWeaponAppliesEffect ==
  \A p \in Players :
    LET lid == player[p].lobbyId IN
    ( /\ ~crashed /\ player[p].conn = "open"
      /\ lid # NoLobby /\ lid \in lobbies /\ p \in SeqToSet(lobby[lid].players)
      /\ player[p].isAlive /\ lobby[lid].gameState = "playing"
      /\ player[p].weapon \in { "speed_boost", "shield", "ghost", "double_score" } )
    => LET A == Lobby_handleUseWeapon(Received(p), lid, p)
           T == player[p].weapon IN
         /\ A.pl[p].weapon = "null"
         /\ T = "speed_boost" => A.pl[p].speedMultiplier = "1.5"
         /\ T = "shield" => A.pl[p].isInvincible = "true"
         /\ T = "ghost" => A.pl[p].canPhaseThrough = "true"
         /\ T = "double_score" => A.pl[p].scoreMultiplier = 2

\* C24: after resetForGame(player), whatever effects were applied before and whether or
\* not their timers have fired, the player has speedMultiplier 1, isInvincible false,
\* canPhaseThrough false and scoreMultiplier 1; stated for the players an effect has been
\* applied to, a flag no effect has ever set counting as cleared.
C24_ResetClearsEffects ==
  \A p \in Players :
    player[p].scoreMultiplier # Undefined =>
      LET A == ResetForGame(World, p).pl[p] IN
        /\ A.speedMultiplier \in { "1", "undefined" } /\ A.isInvincible \in { "false", "undefined" }
        /\ A.canPhaseThrough \in { "false", "undefined" } /\ A.scoreMultiplier = 1

\* C25: on shutdown server_shutdown is sent to every connected session and every lobby's
\* tick is stopped: the step of the shutdown sends a message to every session of the
\* registry, and after it no lobby executes another tick, the lobbies that were in their
\* start countdown included.  (cleanupInterval is FALSE from the shutdown on.)
C25_NoTickAfterShutdown ==
  [][ /\ ( cleanupInterval /\ ~cleanupInterval' )
         => \A p \in SeqToSet(players) : player[p].conn = "open" => p \in ShutdownWorld(World).sent
      /\ ~cleanupInterval => \A l \in LobbyIds : ~TickOf(l) ]_vars

\* The lobby has been made and is no longer in the registry.
Destroyed(l) == lobby[l].created /\ l \notin lobbies

\* C26: when a finished lobby is destroyed (empty and swept from the registry) before its
\* reset timer fires, the reset is cancelled and resetLobby never runs on it; likewise no
\* countdown or tick timer of a destroyed lobby fires.
C26_NoTimerOfDestroyedLobby ==
  [][ \A l \in LobbyIds :
        Destroyed(l) =>
          /\ lobby'[l].resetTimers >= lobby[l].resetTimers
          /\ lobby'[l].countdown >= lobby[l].countdown
          /\ ~TickOf(l) ]_vars

C28_PublicListing ==
  \A l \in LobbyIds :
    /\ l \in GetPublicLobbies(World)
         <=> ( l \in lobbies /\ ~lobby[l].isPrivate /\ lobby[l].gameState = "waiting" )
    /\ ( lobby[l].isPrivate \/ lobby[l].gameState \in { "starting", "playing", "finished" } )
         => l \notin GetPublicLobbies(World)

\* A public waiting lobby is listed while a registered private lobby is not.
C28_PrivateLobbyHidden ==
  \E l, k \in lobbies :
    /\ l \in GetPublicLobbies(World)
    /\ lobby[k].isPrivate /\ lobby[k].gameState = "waiting" /\ lobby[k].players # << >>
    /\ k \notin GetPublicLobbies(World)

\* C29: update_lobby_settings merges the given settings into the lobby's gameSettings
\* only when the requester is the lobby's creator and the lobby is waiting; in every other
\* case (not the creator, another state, requester in no lobby) every gameSettings is
\* unchanged and the requester is sent an error.
C29_SettingsAuthorization ==
  ~crashed =>
    \A p \in Players, ns \in SettingsSent :
      player[p].conn = "open" =>
        LET lid == player[p].lobbyId
            A == HandleUpdateLobbySettings(Received(p), p, ns)
            allowed == /\ lid # NoLobby
                       /\ lobby[lid].createdBy = p /\ lobby[lid].gameState = "waiting" IN
          IF allowed
          THEN /\ A.lb[lid].gameSettings = MergeSettings(lobby[lid].gameSettings, ns)
               /\ \A l \in LobbyIds \ { lid } : A.lb[l].gameSettings = lobby[l].gameSettings
               /\ p \notin A.errors
          ELSE /\ \A l \in LobbyIds : A.lb[l].gameSettings = lobby[l].gameSettings
               /\ p \in A.errors

\* The creator has changed the settings of a waiting lobby that has a second member, whose
\* own request is refused.
C29_SettingsChanged ==
  \E l \in lobbies :
    /\ lobby[l].gameState = "waiting" /\ lobby[l].gameSettings # CustomSettings
    /\ \E p \in Members(l) : p # lobby[l].createdBy /\ player[p].conn = "open"

\* The coordinate is a number outside [0, boardSize).
OutsideAxis(v, boardSize) == v # NaN /\ v # Undefined /\ ( v < 0 \/ v >= boardSize )

\* C30: when the new head of an alive player is outside [0, boardSize) on either axis (a
\* number below 0 or not below boardSize), the player is killed with no killer: isAlive
\* false, deaths + 1, nobody's kills or score changes; the snake keeps the new head and its
\* tail (one segment more than before the tick), and the player picks up no food or
\* weapon in that tick.
C30_WallDeath ==
  [][ \A l \in LobbyIds, p \in Players :
        ( /\ TickOf(l) /\ Moves(l, p)
          /\ ~BeforeCheck(l, p).crashed
          /\ LET head == BeforeCheck(l, p).pl[p].snake[1]
                 b == lobby[l].gameSettings.boardSize
             IN OutsideAxis(head.x, b) \/ OutsideAxis(head.y, b) )
        => LET B == BeforeCheck(l, p)
               A == AfterCheck(l, p)
           IN /\ ~A.pl[p].isAlive /\ A.pl[p].deaths = B.pl[p].deaths + 1
              /\ \A o \in Players : A.pl[o].kills = B.pl[o].kills /\ A.pl[o].score = B.pl[o].score
              /\ A.pl[p].snake = << NextHead(p) >> \o player[p].snake
              /\ A.lb[l].food = B.lb[l].food /\ A.lb[l].weapons = B.lb[l].weapons
              /\ A.pl[p].weapon = B.pl[p].weapon
              /\ ~crashed' =>
                   /\ ~player'[p].isAlive /\ player'[p].deaths = player[p].deaths + 1
                   /\ player'[p].snake = << NextHead(p) >> \o player[p].snake
                   /\ player'[p].score = player[p].score /\ player'[p].kills = player[p].kills
                   /\ player'[p].weapon = player[p].weapon ]_vars

\* A player has died at the wall: it is dead with its head off the board and a snake of
\* one segment more than it started with, and nobody has a kill.
C30_DiedAtWall ==
  \E l \in LobbyIds : \E p \in Members(l) :
    /\ ~player[p].isAlive /\ player[p].deaths = 1
    /\ Len(player[p].snake) = 4
    /\ player[p].snake[1].x = lobby[l].gameSettings.boardSize
    /\ player[p].snake[2].x = lobby[l].gameSettings.boardSize - 1
    /\ \A o \in Players : player[o].kills = 0

C32_SettingsBounds ==
  \A l \in lobbies :
    /\ lobby[l].maxPlayers \in 2..8
    /\ lobby[l].gameSettings.boardSize \in 10..40
    /\ lobby[l].gameSettings.gameSpeed \in 50..500
    /\ lobby[l].gameSettings.winCondition \in { "last_standing", "time_limit" }

\* C33: in every reachable state the direction of every player is one of the four unit
\* vectors (1,0), (-1,0), (0,1), (0,-1), whatever payloads player_input carries.
C33_DirectionIsUnitVector ==
  \A p \in Players :
    player[p].direction \in { Pos(1, 0), Pos(-1, 0), Pos(0, 1), Pos(0, -1) }

\* C34: every change of a lobby's gameState is one of waiting -> starting,
\* starting -> playing, playing -> finished, finished -> waiting, under any interleaving
\* of client commands, disconnects, sweeps and the auto-start, countdown, tick and reset
\* timers.
C34_LifecycleTransitions ==
  [][ \A l \in LobbyIds :
        lobby'[l].gameState # lobby[l].gameState =>
          << lobby[l].gameState, lobby'[l].gameState >> \in
            { << "waiting", "starting" >>, << "starting", "playing" >>,
              << "playing", "finished" >>, << "finished", "waiting" >> } ]_vars

\* A lobby has gone round the whole cycle: it has announced game_started, its game has
\* ended with a winner, and it is waiting again with no reset pending.
C34_BackToWaiting ==
  \E l \in lobbies :
    /\ lobby[l].gameState = "waiting" /\ lobby[l].resetTimers = 0
    /\ Len(lobby[l].announced) > 0
    /\ lobby[l].announced[Len(lobby[l].announced)] = Msg("game_started", 0)
    /\ lobby[l].winner # NoPlayer

\* Sample sequences of one spawn in lobby l: those of Draws, and an occupied cell for all
\* rounds or for all but the last two.
SpawnSamples(l) ==
  Draws(World, l)
  \cup { [ n |-> n, a |-> a, b |-> c ] :
           n \in { MaxAttempts - 2, MaxAttempts }, a \in OccupiedCells(World, l), c \in SpawnCells }

\* The rounds of the samples d whose position is free.
FreeRounds(l, d) ==
  { i \in 1..MaxAttempts : ~IsPositionOccupied(World, l, SampleAt(d, i).x, SampleAt(d, i).y) }

\* C35: for each requested food or weapon spawn, positions are sampled up to 100 times;
\* the item is added, at the first sampled free cell, if and only if at least one of
\* those samples is a cell not occupied by an alive segment or an item; otherwise the
\* spawn is skipped and the item lists are unchanged.
C35_SpawnRetry ==
  \A l \in lobbies :
    lobby[l].gameState = "playing" =>
      \A d \in SpawnSamples(l), type \in WeaponTypes :
        LET free == FreeRounds(l, d)
            first == SampleAt(d, CHOOSE i \in free : \A k \in free : i <= k)
            F == FoodRound(World, l, d)
            G == WeaponRound(World, l, d, type)
        IN /\ F.lb[l].weapons = lobby[l].weapons /\ G.lb[l].food = lobby[l].food
           /\ IF free # {}
              THEN /\ F.lb[l].food = Append(lobby[l].food,
                                            [ x |-> first.x, y |-> first.y, value |-> FoodScore ])
                   /\ G.lb[l].weapons = Append(lobby[l].weapons,
                                               [ x |-> first.x, y |-> first.y, type |-> type ])
              ELSE F.lb[l].food = lobby[l].food /\ G.lb[l].weapons = lobby[l].weapons

\* The effect flag of a timed weapon type: its value, its effect value and the values it
\* has without an effect (the default, or none when no effect was ever applied).
EffectFlag(p, type) ==
  IF type = "speed_boost"
  THEN [ value |-> player[p].speedMultiplier, on |-> "1.5", off |-> { "1", "undefined" } ]
  ELSE IF type = "shield"
  THEN [ value |-> player[p].isInvincible, on |-> "true", off |-> { "false", "undefined" } ]
  ELSE IF type = "ghost"
  THEN [ value |-> player[p].canPhaseThrough, on |-> "true", off |-> { "false", "undefined" } ]
  ELSE [ value |-> player[p].scoreMultiplier, on |-> DoubleScoreMultiplier, off |-> { 1, Undefined } ]

\* C36: for every activation of a timed effect by applyWeaponEffect the flag stays at its
\* effect value until that activation's own duration has elapsed (its timeout is still
\* pending), for any interleaving of several activations of the same effect on the same
\* player and their timeouts; once the durations of all activations have elapsed the flag
\* is back at its default.
C36_EffectLastsItsDuration ==
  \A p \in Players, type \in { "speed_boost", "shield", "ghost", "double_score" } :
    IF type \in SeqToSet(player[p].effectTimers)
    THEN EffectFlag(p, type).value = EffectFlag(p, type).on
    ELSE EffectFlag(p, type).value \in EffectFlag(p, type).off

\* C37: whenever a lobby is in playing and no tick or command handler is executing, it
\* has at least two alive members.
C37_TwoAliveWhilePlaying ==
  \A l \in lobbies :
    ( ~crashed /\ lobby[l].gameState = "playing" ) => Len(GetAlivePlayers(World, l)) >= 2

\* C38: a player killed in a tick by colliding with a segment of another player is not
\* processed further in that tick: the player's score and weapon are unchanged, no food or
\* weapon item is removed from the lobby on their behalf, and their snake is left as it
\* was at the moment of death.
C38_KilledPlayerLeftAlone ==
  [][ \A l \in LobbyIds, p \in Players :
        ( /\ TickOf(l) /\ Moves(l, p)
          /\ ~BeforeCheck(l, p).crashed
          /\ ~WallCollision(BeforeCheck(l, p).pl[p].snake[1], lobby[l].gameSettings.boardSize)
          /\ ~SelfCollision(BeforeCheck(l, p).pl[p].snake)
          /\ Len(HitBy(BeforeCheck(l, p), l, p)) > 0 )
        => LET B == BeforeCheck(l, p)
               A == AfterCheck(l, p)
           IN /\ ~A.pl[p].isAlive
              /\ A.pl[p].score = B.pl[p].score /\ A.pl[p].weapon = B.pl[p].weapon
              /\ A.lb[l].food = B.lb[l].food /\ A.lb[l].weapons = B.lb[l].weapons
              /\ A.pl[p].snake = B.pl[p].snake ]_vars

\* C39: in every reachable state every player has gamesWon <= gamesPlayed, for any
\* sequence of joins and leaves during the starting and playing phases.
C39_WinsWithinGamesPlayed ==
  \A p \in Players : player[p].gamesWon <= player[p].gamesPlayed

\* C40: every lobby that enters playing reaches finished, given that ticks keep firing and
\* the clock advances, for every sequence of inputs, joins, leaves and disconnects: in
\* every state, the game loop of a playing lobby is still going to fire, and every tick
\* takes the game closer to maxGameTime.
C40_PlayingReachesFinished ==
  \A l \in LobbyIds :
    lobby[l].gameState = "playing" => ~crashed /\ lobby[l].loopRunning

====
